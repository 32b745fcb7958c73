-------------------------- MODULE MachineImageUpload --------------------------
(***************************************************************************)
(* UploadImage of MachineImageDrivers in detail.  The uploader of the SDK  *)
(* sends the machine image, which is larger than one part, from several    *)
(* goroutines (feature/s3/manager/upload.go); every request goes through   *)
(* the retryer of driver/retryer.go, whose one bucket of retry tokens all  *)
(* requests of the client share (aws/retry/middleware.go,                  *)
(* aws/ratelimit/token_bucket.go).  A request may take effect though its   *)
(* answer is an error.                                                     *)
(***************************************************************************)
EXTENDS Integers, Sequences, FiniteSets, FiniteSetsExt

CONSTANTS
  Workers,        \* Uploader.Concurrency goroutines
  PartCount,      \* parts of the image
  NumMaxRetries,  \* what the driver passes to NewS3RetryerWithRetries()
  Capacity,       \* tokens of a full bucket (500)
  Costs           \* of a retry, and of one after a timeout (5 and 10)

ASSUME UploadAssumption ==
  /\ IsFiniteSet(Workers) /\ Workers # {} /\ "main" \notin Workers
  /\ PartCount \in Nat \ {0, 1}
  /\ NumMaxRetries \in Int
  /\ Capacity \in Nat
  /\ Costs \subseteq Nat

VARIABLES
  pc,        \* where upload() is
  queued,    \* how many parts were sent down the channel
  ch,        \* the channel, closed once upload() waits
  holds,     \* the part a worker received, 0, or -1 when it has left
  request,   \* the request a goroutine is making
  tokens,    \* in the bucket
  failed,    \* multiuploader.err is set
  parts,     \* multiuploader.parts
  object     \* the parts of which S3 made the object, {} if none

retryVars == <<request, tokens>>
uploadVars == <<pc, queued, ch, holds, failed, parts, object>>
vars == <<retryVars, uploadVars>>

Callers == Workers \cup {"main"}
AllParts == 1 .. PartCount

NoRequest == [at |-> "none", attempt |-> 0, held |-> 0]
FirstAttempt == [at |-> "send", attempt |-> 1, held |-> 0]

Init ==
  /\ pc = "create"
  /\ queued = 0 /\ ch = <<>>
  /\ holds = [w \in Workers |-> 0]
  /\ request = [c \in Callers |-> IF c = "main" THEN FirstAttempt ELSE NoRequest]
  /\ tokens = Capacity
  /\ failed = FALSE /\ parts = {} /\ object = {}

-----------------------------------------------------------------------------
(* The retryer *)

(* The number of retries becomes one of attempts. *)
MaxAttempts == IF NumMaxRetries <= 0 THEN 3 ELSE NumMaxRetries

Sending(c) == request[c].at = "send"

(* The token held for this attempt comes back, and one more. *)
Succeed(c) ==
  /\ Sending(c)
  /\ tokens' = Min({tokens + request[c].held + 1, Capacity})

(* An error that is not retryable, or was retried often enough, or finds   *)
(* too few tokens; the token held for the attempt is lost.                 *)
GiveUp(c) == Sending(c) /\ UNCHANGED tokens

Then(c, r) == request' = [request EXCEPT ![c] = r]

BadBackOff(c) ==
  /\ Sending(c)
  /\ Then(c, [request[c] EXCEPT !.at = "sleep"])
  /\ UNCHANGED tokens

BackOff(c) ==
  /\ Sending(c)
  /\ request[c].attempt < MaxAttempts
  /\ \E cost \in Costs :
       /\ cost <= tokens
       /\ tokens' = tokens - cost
       /\ Then(c, [at |-> "sleep", attempt |-> request[c].attempt + 1, held |-> cost])

Resend(c) ==
  /\ request[c].at = "sleep"
  /\ Then(c, [request[c] EXCEPT !.at = "send"])
  /\ UNCHANGED tokens

-----------------------------------------------------------------------------
(* readChunk() and send(), in each worker *)

Hold(w, part) == holds' = [holds EXCEPT ![w] = part]

Receive(w) ==
  /\ holds[w] = 0
  /\ \/ ch # <<>> /\ Hold(w, Head(ch)) /\ ch' = Tail(ch)
     \/ ch = <<>> /\ pc = "wait" /\ Hold(w, -1) /\ UNCHANGED ch
  /\ UNCHANGED <<retryVars, pc, queued, failed, parts, object>>

(* After an error parts are only taken from the channel.                   *)
StartPart(w) ==
  /\ holds[w] > 0 /\ request[w] = NoRequest
  /\ IF failed THEN Hold(w, 0) /\ UNCHANGED request
               ELSE Then(w, FirstAttempt) /\ UNCHANGED holds
  /\ UNCHANGED <<tokens, pc, queued, ch, failed, parts, object>>

UploadPart(w) ==
  /\ \/ Succeed(w) /\ parts' = parts \cup {holds[w]} /\ UNCHANGED failed
     \/ GiveUp(w) /\ failed' = TRUE /\ UNCHANGED parts
  /\ Then(w, NoRequest) /\ Hold(w, 0)
  /\ UNCHANGED <<pc, queued, ch, object>>

RetryPart(w) == (BackOff(w) \/ Resend(w)) /\ UNCHANGED uploadVars

Worker(w) == Receive(w) \/ StartPart(w) \/ UploadPart(w) \/ RetryPart(w)

-----------------------------------------------------------------------------
(* upload(), complete() and fail() *)

CreateMultipartUpload ==
  /\ pc = "create"
  /\ \/ Succeed("main") /\ pc' = "queue" /\ UNCHANGED failed
     \/ GiveUp("main") /\ pc' = "returned" /\ failed' = TRUE
  /\ Then("main", NoRequest)
  /\ UNCHANGED <<queued, ch, holds, parts, object>>

QueuePart ==
  /\ pc = "queue"
  /\ Len(ch) < Cardinality(Workers)
  /\ queued' = queued + 1
  /\ ch' = Append(ch, queued')
  /\ pc' = "next"
  /\ UNCHANGED <<retryVars, holds, failed, parts, object>>

(* After an error, or the last part, the channel is closed.                *)
NextPart ==
  /\ pc = "next"
  /\ pc' = IF failed \/ queued = PartCount THEN "wait" ELSE "queue"
  /\ UNCHANGED <<retryVars, queued, ch, holds, failed, parts, object>>

BadAllSent == ch = <<>>

AllSent == \A w \in Workers : holds[w] = -1

Wait ==
  /\ pc = "wait"
  /\ AllSent
  /\ pc' = IF failed THEN "abort" ELSE "complete"
  /\ Then("main", FirstAttempt)
  /\ UNCHANGED <<tokens, queued, ch, holds, failed, parts, object>>

(* Even a request that failed may have made the object.                    *)
CompleteMultipartUpload ==
  /\ pc = "complete"
  /\ \/ /\ Succeed("main")
        /\ object' = parts
        /\ failed' = (parts # AllParts)
     \/ /\ GiveUp("main")
        /\ object' \in {object, parts}
        /\ failed' = TRUE
  /\ pc' = IF failed' THEN "abort" ELSE "returned"
  /\ Then("main", IF failed' THEN FirstAttempt ELSE NoRequest)
  /\ UNCHANGED <<queued, ch, holds, parts>>

(* The error of the abort is dropped; an object that was made stays.       *)
AbortMultipartUpload ==
  /\ pc = "abort"
  /\ Succeed("main") \/ GiveUp("main")
  /\ Then("main", NoRequest)
  /\ pc' = "returned"
  /\ UNCHANGED <<queued, ch, holds, failed, parts, object>>

RetryMain ==
  /\ \/ BackOff("main") /\ object' \in {object, IF pc = "complete" THEN parts ELSE object}
     \/ Resend("main") /\ UNCHANGED object
  /\ UNCHANGED <<pc, queued, ch, holds, failed, parts>>

Upload ==
  \/ CreateMultipartUpload \/ QueuePart \/ NextPart \/ Wait
  \/ CompleteMultipartUpload \/ AbortMultipartUpload \/ RetryMain

Returned == pc = "returned"

Next ==
  \/ Upload
  \/ \E w \in Workers : Worker(w)
  \/ Returned /\ UNCHANGED vars

Spec == Init /\ [][Next]_vars

FairSpec == Spec /\ WF_vars(Upload) /\ \A w \in Workers : WF_vars(Worker(w))

-----------------------------------------------------------------------------
(* What the driver sees when Upload() returns. *)
Objects ==
  CASE ~Returned \/ object = {} -> {}
    [] Returned /\ object = AllParts -> {"image"}
    [] Returned /\ object \notin {{}, AllParts} -> {"part of the image"}

Driver ==
  INSTANCE MachineImageDrivers WITH
    Kind <- "standard",
    pc <- CASE ~Returned -> "upload" [] Returned /\ failed -> "returned" [] OTHER -> "sign",
    objects <- Objects,
    created <- IF Returned /\ failed THEN "error" ELSE "none",
    urls <- <<>>, expired <- {}, next <- 1, deleted <- "none"

(* However the requests of the workers fail, are retried and run out of    *)
(* tokens, Upload() is the single step the drivers' model takes it for:    *)
(* it succeeds with the whole image in the bucket, or fails with the whole *)
(* image or nothing there, never with a part of it                         *)
(* (create_machine_image_driver.go:75, upload.go:700-712).                 *)
ImplementsUpload ==
  Driver!Init /\ [][Driver!UploadImage]_<<Objects, Returned, failed /\ Returned>>

(* Upload() returns: workers that met an error go on emptying the channel  *)
(* on which it waits, and retries come to an end                           *)
(* (upload.go:766-786, retryer.go:40-53).                                  *)
Returns == <>Returned
=============================================================================
