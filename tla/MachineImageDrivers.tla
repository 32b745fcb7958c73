------------------------- MODULE MachineImageDrivers -------------------------
(***************************************************************************)
(* The S3 drivers: driver/create_machine_image_driver.go uploads the       *)
(* machine image of a standard region, create_machine_image_manifest_      *)
(* driver.go that of an isolated region with a manifest that leads EC2 to  *)
(* it, and delete_machine_image_driver.go deletes what was uploaded when   *)
(* the publisher returns.  The last one has no credentials: all it has are *)
(* presigned URLs, which expire while the publisher is at work.            *)
(***************************************************************************)
EXTENDS Naturals, Sequences, Functions

CONSTANT Kind   \* of the entry's region, "standard" or "isolated"

VARIABLES
  pc,         \* where Create(), and later Delete(), is
  objects,    \* what is in the bucket
  urls,       \* MachineImage.DeleteURLs, named after their objects
  expired,    \* those that S3 accepts no more
  next,       \* the URL that Delete() has come to
  created,    \* what Create() returned
  deleted     \* what Delete() returned

deleteVars == <<next, expired, deleted>>

Init ==
  /\ pc = "upload"
  /\ objects = {}
  /\ urls = <<>>
  /\ expired = {}
  /\ next = 1
  /\ created = "none" /\ deleted = "none"

-----------------------------------------------------------------------------
(* Create() *)

Goto(step) == pc' = step /\ UNCHANGED <<urls, created>>

Fail == pc' = "returned" /\ created' = "error" /\ UNCHANGED urls

Succeed(deleteURLs) == pc' = "use" /\ created' = "ok" /\ urls' = deleteURLs

(* Opening the file or the upload may fail, the latter after all.          *)
UploadImage ==
  /\ pc = "upload"
  /\ \/ objects' = {"image"} /\ Goto(IF Kind = "standard" THEN "sign" ELSE "prepare")
     \/ objects' \in {{}, {"image"}} /\ Fail
  /\ UNCHANGED deleteVars

SignDelete ==
  /\ pc = "sign"
  /\ Succeed(<<"image">>) \/ Fail
  /\ UNCHANGED <<objects, deleteVars>>

(* The size of the object, three URLs for it, two for the manifest.        *)
PrepareManifest ==
  /\ pc = "prepare"
  /\ Goto("uploadManifest") \/ Fail
  /\ UNCHANGED <<objects, deleteVars>>

BadForgottenImage == <<"manifest">>
BadImageFirst == <<"image", "manifest">>

(* SelfDestructURL, then the DeleteURL of the only part. *)
ManifestDeleteURLs == <<"manifest", "image">>

UploadManifest ==
  /\ pc = "uploadManifest"
  /\ \/ objects' = objects \cup {"manifest"} /\ Succeed(ManifestDeleteURLs)
     \/ objects' \in {objects, objects \cup {"manifest"}} /\ Fail
  /\ UNCHANGED deleteVars

Create == UploadImage \/ SignDelete \/ PrepareManifest \/ UploadManifest

-----------------------------------------------------------------------------
(* Hours for which a URL is signed. *)
StandardLifetime == 24

Lifetime(url) ==
  CASE Kind = "standard" -> StandardLifetime
    [] Kind = "isolated" /\ url = "image" -> 1
    [] Kind = "isolated" /\ url = "manifest" -> 2

Valid(url) == url \notin expired

(* Time passes, the more of it the longer the publisher has to wait. *)
Expire ==
  \E url \in Range(urls) :
    /\ Valid(url)
    /\ \A other \in Range(urls) : Valid(other) => Lifetime(url) <= Lifetime(other)
    /\ expired' = expired \cup {url}
    /\ UNCHANGED <<pc, objects, urls, next, created, deleted>>

-----------------------------------------------------------------------------
(* Delete() *)

StartDelete ==
  /\ pc = "use"
  /\ Goto("delete")
  /\ UNCHANGED <<objects, deleteVars>>

BadAnswerAccepted == TRUE

(* S3 answers 2xx to a request that is still valid, and 403 later. *)
AnswerAccepted == Valid(urls[next])

StopDeleting(r) ==
  /\ pc' = "returned"
  /\ deleted' = r
  /\ UNCHANGED <<created, urls, next, expired>>

(* What S3 does with a request it may have to refuse. *)
Serve(url) == objects' = IF Valid(url) THEN objects \ {url} ELSE objects

(* One round of the loop; an error ends it. *)
DeleteNext ==
  /\ pc = "delete"
  /\ next <= Len(urls)
  /\ \/ /\ AnswerAccepted
        /\ Serve(urls[next])
        /\ next' = next + 1
        /\ Goto("delete") /\ UNCHANGED <<expired, deleted>>
     \/ /\ Serve(urls[next]) \/ UNCHANGED objects
        /\ StopDeleting("error")

DeletedAll ==
  /\ pc = "delete"
  /\ next > Len(urls)
  /\ StopDeleting("nil")
  /\ UNCHANGED objects

Delete == DeleteNext \/ DeletedAll

-----------------------------------------------------------------------------
(* What the publisher knows of the image: the two calls as single steps.   *)
Kept ==
  CASE created = "none" -> "none"
    [] created = "error" -> IF objects = {} THEN "none" ELSE "abandoned"
    [] created = "ok" /\ pc # "returned" -> "live"
    [] created = "ok" /\ pc = "returned" -> IF objects = {} THEN "deleted" ELSE "kept"

TypeOK ==
  /\ pc \in {"upload", "sign", "prepare", "uploadManifest", "use", "delete", "returned"}
  /\ objects \subseteq {"image", "manifest"}
  /\ urls \in {<<>>, <<"image">>, ManifestDeleteURLs}
  /\ expired \subseteq Range(urls)
  /\ next \in 1 .. Len(urls) + 1
  /\ created \in {"none", "ok", "error"}
  /\ deleted \in {"none", "nil", "error"}
=============================================================================
