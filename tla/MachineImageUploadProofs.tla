----------------------- MODULE MachineImageUploadProofs -----------------------
(***************************************************************************)
(* For any number of workers, parts, attempts and tokens: an upload in     *)
(* parts is the one step with two outcomes that the drivers take it for.   *)
(***************************************************************************)
EXTENDS MachineImageUpload, SequenceTheorems, TLAPS

ElementsOf(s) == {s[i] : i \in DOMAIN s}
InChannel == ElementsOf(ch)
Held == {holds[w] : w \in Workers} \ {0, -1}

Stages == {"create", "queue", "next", "wait", "complete", "abort", "returned"}

Typed ==
  /\ pc \in Stages
  /\ queued \in Nat
  /\ ch \in Seq(Nat \ {0})
  /\ holds \in [Workers -> Nat \cup {-1}]
  /\ DOMAIN request = Callers
  /\ failed \in BOOLEAN

(* A worker makes requests for a part only, and leaves when the channel is *)
(* closed and empty.                                                       *)
WorkersOK ==
  \A w \in Workers :
    /\ request[w] # NoRequest => holds[w] > 0
    /\ holds[w] = -1 => ch = <<>> /\ pc \notin {"create", "queue", "next"}

(* Nothing is left to a worker before the first and after the last part.   *)
Quiet ==
  pc \in {"create", "complete", "abort", "returned"} =>
    ch = <<>> /\ \A w \in Workers : holds[w] <= 0

(* No part gets lost without an error.                                     *)
PartsOK ==
  ~failed =>
    /\ parts \cup InChannel \cup Held = 1 .. queued
    /\ pc = "wait" => queued = PartCount

ObjectOK ==
  /\ object \in {{}, AllParts}
  /\ object # {} => pc \in {"complete", "abort", "returned"}
  /\ pc = "complete" => ~failed /\ parts = AllParts
  /\ pc = "abort" => failed
  /\ pc = "returned" /\ ~failed => object = AllParts

Inv == Typed /\ WorkersOK /\ Quiet /\ PartsOK /\ ObjectOK

-----------------------------------------------------------------------------
(* What is in a channel after a send and a receive.                        *)
LEMMA Sent ==
  ASSUME NEW S, NEW s \in Seq(S), NEW x \in S
  PROVE  Append(s, x) \in Seq(S) /\ ElementsOf(Append(s, x)) = ElementsOf(s) \cup {x}
<1>1. /\ Append(s, x) \in Seq(S)
      /\ Len(Append(s, x)) = Len(s) + 1
      /\ \A i \in 1 .. Len(s) : Append(s, x)[i] = s[i]
      /\ Append(s, x)[Len(s) + 1] = x
      /\ Len(s) \in Nat
      /\ DOMAIN s = 1 .. Len(s)
  BY AppendProperties, LenProperties
<1>2. DOMAIN Append(s, x) = 1 .. Len(s) + 1
  BY <1>1, LenProperties
<1> QED
  BY <1>1, <1>2 DEF ElementsOf

LEMMA Received ==
  ASSUME NEW S, NEW s \in Seq(S), s # <<>>
  PROVE  /\ Head(s) \in S /\ Tail(s) \in Seq(S)
         /\ ElementsOf(s) = ElementsOf(Tail(s)) \cup {Head(s)}
<1>1. /\ Tail(s) \in Seq(S) /\ Len(Tail(s)) = Len(s) - 1
      /\ \A i \in 1 .. Len(Tail(s)) : Tail(s)[i] = s[i + 1]
      /\ Head(s) \in S /\ Head(s) = s[1]
      /\ Len(s) \in Nat \ {0}
  BY HeadTailProperties, EmptySeq
<1>2. DOMAIN s = 1 .. Len(s) /\ DOMAIN Tail(s) = 1 .. Len(s) - 1
  BY <1>1, LenProperties
<1>3. \A i \in 1 .. Len(s) : i = 1 \/ i - 1 \in 1 .. Len(s) - 1
  BY <1>1
<1>4. \A i \in 1 .. Len(s) - 1 : i + 1 \in 1 .. Len(s) /\ Tail(s)[i] = s[i + 1]
  BY <1>1
<1>5. ASSUME NEW y \in ElementsOf(s) PROVE y \in ElementsOf(Tail(s)) \cup {Head(s)}
  <2>1. PICK i \in 1 .. Len(s) : y = s[i]
    BY <1>2 DEF ElementsOf
  <2>2. CASE i = 1
    BY <1>1, <2>1, <2>2
  <2>3. CASE i - 1 \in 1 .. Len(s) - 1
    <3>1. Tail(s)[i - 1] = s[i - 1 + 1] /\ i - 1 + 1 = i
      BY <1>4, <2>1, <2>3
    <3> QED
      BY <1>2, <2>1, <2>3, <3>1 DEF ElementsOf
  <2> QED
    BY <1>3, <2>2, <2>3
<1>6. 1 \in 1 .. Len(s)
  BY <1>1
<1>7. ElementsOf(Tail(s)) \cup {Head(s)} \subseteq ElementsOf(s)
  BY <1>1, <1>2, <1>4, <1>6 DEF ElementsOf
<1> QED
  BY <1>1, <1>5, <1>7

LEMMA InvInit == Init => Inv
<1> SUFFICES ASSUME Init PROVE Inv
  OBVIOUS
<1>1. Typed
  BY EmptySeq DEF Init, Typed, Stages
<1>2. \A w \in Workers : request[w] = NoRequest /\ holds[w] = 0
  BY UploadAssumption DEF Init, Callers
<1>3. WorkersOK /\ Quiet
  BY <1>2 DEF Init, WorkersOK, Quiet
<1>4. InChannel = {} /\ Held = {} /\ 1 .. 0 = {}
  BY DEF Init, InChannel, ElementsOf, Held
<1> QED
  BY <1>1, <1>3, <1>4 DEF Inv, Init, PartsOK, ObjectOK

(* A step of the retryer for c leaves the requests of the others alone.    *)
LEMMA ThenProperties ==
  ASSUME Typed, NEW c \in Callers, NEW r, Then(c, r)
  PROVE  /\ DOMAIN request' = Callers
         /\ request'[c] = r
         /\ \A w \in Callers : w # c => request'[w] = request[w]
  BY DEF Then, Typed

LEMMA HoldProperties ==
  ASSUME Typed, NEW w \in Workers, NEW part \in Nat \cup {-1}, Hold(w, part)
  PROVE  /\ holds' \in [Workers -> Nat \cup {-1}]
         /\ holds'[w] = part
         /\ \A v \in Workers : v # w => holds'[v] = holds[v]
         /\ Held' \cup ({holds[w]} \ {0, -1}) = Held \cup ({part} \ {0, -1})
<1>1. /\ holds' \in [Workers -> Nat \cup {-1}]
      /\ holds'[w] = part
      /\ \A v \in Workers : v # w => holds'[v] = holds[v]
  BY DEF Hold, Typed
<1> QED
  BY <1>1 DEF Held

-----------------------------------------------------------------------------
LEMMA ReceiveStep ==
  ASSUME Inv, NEW w \in Workers, Receive(w) PROVE Inv'
<1> USE DEF Inv
<1>1. CASE ch # <<>> /\ Hold(w, Head(ch)) /\ ch' = Tail(ch)
  <2>1. /\ Head(ch) \in Nat \ {0} /\ ch' \in Seq(Nat \ {0})
        /\ InChannel = InChannel' \cup {Head(ch)}
    BY <1>1, Received DEF Typed, InChannel
  <2>2. /\ holds' \in [Workers -> Nat \cup {-1}]
        /\ holds'[w] = Head(ch)
        /\ \A v \in Workers : v # w => holds'[v] = holds[v]
        /\ Held' = Held \cup {Head(ch)}
    <3>1. Head(ch) \in Nat \cup {-1} /\ Hold(w, Head(ch))
      BY <1>1, <2>1
    <3>2. {holds[w]} \ {0, -1} = {} /\ {Head(ch)} \ {0, -1} = {Head(ch)}
      BY <2>1 DEF Receive
    <3> QED
      BY <3>1, <3>2, HoldProperties
  <2>3. Typed' /\ WorkersOK' /\ Quiet'
    <3>1. Typed'
      BY <1>1, <2>1, <2>2 DEF Receive, retryVars, Typed
    <3>2. WorkersOK'
      BY <1>1, <2>1, <2>2 DEF Receive, retryVars, WorkersOK
    <3>3. Quiet'
      BY <1>1, <2>1, <2>2 DEF Receive, retryVars, Quiet
    <3> QED
      BY <3>1, <3>2, <3>3
  <2>4. PartsOK'
    BY <2>1, <2>2 DEF Receive, PartsOK
  <2> QED
    BY <2>3, <2>4 DEF Receive, ObjectOK
<1>2. CASE ch = <<>> /\ pc = "wait" /\ Hold(w, -1) /\ UNCHANGED ch
  <2>1. /\ holds' \in [Workers -> Nat \cup {-1}]
        /\ holds'[w] = -1
        /\ \A v \in Workers : v # w => holds'[v] = holds[v]
        /\ Held' = Held
    <3>1. {holds[w]} \ {0, -1} = {} /\ {-1} \ {0, -1} = {}
      BY DEF Receive
    <3>2. /\ holds' \in [Workers -> Nat \cup {-1}]
          /\ holds'[w] = -1
          /\ \A v \in Workers : v # w => holds'[v] = holds[v]
          /\ Held' \cup ({holds[w]} \ {0, -1}) = Held \cup ({-1} \ {0, -1})
      BY <1>2, HoldProperties
    <3> QED
      BY <3>1, <3>2
  <2>2. Typed' /\ WorkersOK' /\ Quiet'
    <3>1. Typed'
      BY <1>2, <2>1 DEF Receive, retryVars, Typed
    <3>2. WorkersOK'
      BY <1>2, <2>1 DEF Receive, retryVars, WorkersOK
    <3>3. Quiet'
      BY <1>2, <2>1 DEF Receive, retryVars, Quiet
    <3> QED
      BY <3>1, <3>2, <3>3
  <2>3. PartsOK'
    BY <1>2, <2>1 DEF Receive, PartsOK, InChannel
  <2> QED
    BY <2>2, <2>3 DEF Receive, ObjectOK
<1> QED
  BY <1>1, <1>2 DEF Receive

LEMMA StartPartStep ==
  ASSUME Inv, NEW w \in Workers, StartPart(w) PROVE Inv'
<1> USE DEF Inv
<1>1. CASE failed /\ Hold(w, 0) /\ UNCHANGED request
  <2>1. /\ holds' \in [Workers -> Nat \cup {-1}]
        /\ holds'[w] = 0
        /\ \A v \in Workers : v # w => holds'[v] = holds[v]
    BY <1>1, HoldProperties
  <2> QED
    BY <1>1, <2>1 DEF StartPart, Typed, WorkersOK, Quiet, PartsOK, ObjectOK
<1>2. CASE Then(w, FirstAttempt) /\ UNCHANGED holds
  <2>1. /\ DOMAIN request' = Callers
        /\ \A v \in Workers : v # w => request'[v] = request[v]
    BY <1>2, ThenProperties DEF Callers
  <2>2. Typed' /\ WorkersOK' /\ Quiet'
    <3>1. Typed'
      BY <1>2, <2>1 DEF StartPart, Typed
    <3>2. WorkersOK'
      BY <1>2, <2>1 DEF StartPart, WorkersOK
    <3>3. Quiet'
      BY <1>2, <2>1 DEF StartPart, Quiet
    <3> QED
      BY <3>1, <3>2, <3>3
  <2> QED
    BY <1>2, <2>2 DEF StartPart, PartsOK, ObjectOK, InChannel, Held
<1> QED
  BY <1>1, <1>2 DEF StartPart

LEMMA UploadPartStep ==
  ASSUME Inv, NEW w \in Workers, UploadPart(w) PROVE Inv'
<1> USE DEF Inv
<1>1. holds[w] > 0 /\ pc \in {"queue", "next", "wait"}
  <2>1. request[w] # NoRequest
    BY DEF UploadPart, Succeed, GiveUp, Sending, NoRequest
  <2> QED
    BY <2>1 DEF WorkersOK, Quiet, Typed, Stages
<1>2. /\ DOMAIN request' = Callers
      /\ request'[w] = NoRequest
      /\ \A v \in Workers : v # w => request'[v] = request[v]
  BY ThenProperties DEF UploadPart, Callers
<1>3. /\ holds' \in [Workers -> Nat \cup {-1}]
      /\ holds'[w] = 0
      /\ \A v \in Workers : v # w => holds'[v] = holds[v]
      /\ Held' \cup {holds[w]} = Held
  <2>1. {holds[w]} \ {0, -1} = {holds[w]} /\ {0} \ {0, -1} = {}
    BY <1>1
  <2> QED
    BY <2>1, HoldProperties DEF UploadPart
<1>4. Typed'
  BY <1>2, <1>3 DEF UploadPart, Typed
<1>5. WorkersOK'
  BY <1>2, <1>3 DEF UploadPart, WorkersOK
<1>6. Quiet'
  BY <1>1 DEF UploadPart, Quiet
<1>7. PartsOK'
  BY <1>3 DEF UploadPart, PartsOK, InChannel, Typed
<1> QED
  BY <1>1, <1>4, <1>5, <1>6, <1>7 DEF UploadPart, ObjectOK

LEMMA RetryPartStep ==
  ASSUME Inv, NEW w \in Workers, RetryPart(w) PROVE Inv'
<1> USE DEF Inv
<1>1. holds[w] > 0
  BY DEF RetryPart, BackOff, Resend, Sending, WorkersOK, NoRequest
<1>2. /\ DOMAIN request' = Callers
      /\ \A v \in Workers : v # w => request'[v] = request[v]
  <2>1. \E r : Then(w, r)
    BY DEF RetryPart, BackOff, Resend
  <2>2. PICK r : Then(w, r)
    BY <2>1
  <2> QED
    BY <2>2, ThenProperties DEF Callers
<1> QED
  BY <1>1, <1>2 DEF RetryPart, uploadVars, Typed, WorkersOK, Quiet, PartsOK, ObjectOK, InChannel, Held

-----------------------------------------------------------------------------
(* The steps of upload() leave the workers and their requests alone.       *)
LEMMA MainRequest ==
  ASSUME Typed, NEW r, Then("main", r)
  PROVE  DOMAIN request' = Callers /\ \A w \in Workers : request'[w] = request[w]
BY ThenProperties, UploadAssumption DEF Callers

LEMMA UploadStep == ASSUME Inv, Upload PROVE Inv'
<1> USE DEF Inv
<1>1. CASE CreateMultipartUpload
  <2>1. DOMAIN request' = Callers /\ \A w \in Workers : request'[w] = request[w]
    BY <1>1, MainRequest DEF CreateMultipartUpload
  <2>2. Typed' /\ WorkersOK' /\ Quiet'
    <3>1. Typed'
      BY <1>1, <2>1 DEF CreateMultipartUpload, Typed, Stages
    <3>2. WorkersOK'
      BY <1>1, <2>1 DEF CreateMultipartUpload, WorkersOK
    <3>3. Quiet'
      BY <1>1, <2>1 DEF CreateMultipartUpload, Quiet
    <3> QED
      BY <3>1, <3>2, <3>3
  <2> QED
    BY <1>1, <2>2 DEF CreateMultipartUpload, PartsOK, ObjectOK, InChannel, Held
<1>2. CASE QueuePart
  <2>1. /\ ch' \in Seq(Nat \ {0})
        /\ InChannel' = InChannel \cup {queued'}
    BY <1>2, Sent DEF QueuePart, Typed, InChannel
  <2>2. \A w \in Workers : holds[w] # -1
    BY <1>2 DEF QueuePart, WorkersOK
  <2>3. Typed' /\ WorkersOK' /\ Quiet'
    <3>1. Typed'
      BY <1>2, <2>1, <2>2 DEF QueuePart, retryVars, Typed, Stages
    <3>2. WorkersOK'
      BY <1>2, <2>1, <2>2 DEF QueuePart, retryVars, WorkersOK
    <3>3. Quiet'
      BY <1>2, <2>1, <2>2 DEF QueuePart, retryVars, Quiet
    <3> QED
      BY <3>1, <3>2, <3>3
  <2>4. 1 .. queued' = (1 .. queued) \cup {queued'}
    BY <1>2 DEF QueuePart, Typed
  <2>5. PartsOK'
    BY <1>2, <2>1, <2>4 DEF QueuePart, PartsOK, Held
  <2> QED
    BY <1>2, <2>3, <2>5 DEF QueuePart, ObjectOK
<1>3. CASE NextPart
  <2>1. Typed' /\ WorkersOK' /\ Quiet'
    <3>1. Typed'
      BY <1>3 DEF NextPart, retryVars, Typed, Stages
    <3>2. WorkersOK'
      BY <1>3 DEF NextPart, retryVars, WorkersOK
    <3>3. Quiet'
      BY <1>3 DEF NextPart, retryVars, Quiet
    <3> QED
      BY <3>1, <3>2, <3>3
  <2>2. PartsOK' /\ ObjectOK'
    BY <1>3 DEF NextPart, PartsOK, ObjectOK, InChannel, Held
  <2> QED
    BY <2>1, <2>2
<1>4. CASE Wait
  <2>1. DOMAIN request' = Callers /\ \A w \in Workers : request'[w] = request[w]
    BY <1>4, MainRequest DEF Wait
  <2>2. ch = <<>> /\ \A w \in Workers : holds[w] = -1
    BY <1>4, UploadAssumption DEF Wait, AllSent, WorkersOK
  <2>3. Typed' /\ WorkersOK' /\ Quiet'
    <3>1. Typed'
      BY <1>4, <2>1, <2>2 DEF Wait, Typed, Stages
    <3>2. WorkersOK'
      BY <1>4, <2>1, <2>2 DEF Wait, WorkersOK
    <3>3. Quiet'
      BY <1>4, <2>1, <2>2 DEF Wait, Quiet
    <3> QED
      BY <3>1, <3>2, <3>3
  <2>4. ~failed => parts = AllParts
    <3>1. InChannel = {} /\ Held = {}
      BY <2>2 DEF InChannel, ElementsOf, Held
    <3> QED
      BY <1>4, <3>1 DEF Wait, PartsOK, AllParts
  <2> QED
    BY <1>4, <2>3, <2>4 DEF Wait, PartsOK, ObjectOK, InChannel, Held
<1>5. CASE CompleteMultipartUpload
  <2>1. DOMAIN request' = Callers /\ \A w \in Workers : request'[w] = request[w]
    BY <1>5, MainRequest DEF CompleteMultipartUpload
  <2>2. parts = AllParts /\ object' \in {{}, AllParts} /\ failed' \in BOOLEAN
    BY <1>5 DEF CompleteMultipartUpload, ObjectOK
  <2>3. Typed' /\ WorkersOK' /\ Quiet'
    <3>1. Typed'
      BY <1>5, <2>1, <2>2 DEF CompleteMultipartUpload, Typed, Stages
    <3>2. WorkersOK'
      BY <1>5, <2>1, <2>2 DEF CompleteMultipartUpload, WorkersOK
    <3>3. Quiet'
      BY <1>5, <2>1, <2>2 DEF CompleteMultipartUpload, Quiet
    <3> QED
      BY <3>1, <3>2, <3>3
  <2>4. PartsOK'
    BY <1>5 DEF CompleteMultipartUpload, PartsOK, ObjectOK, InChannel, Held
  <2>5. ObjectOK'
    BY <1>5, <2>2 DEF CompleteMultipartUpload, ObjectOK
  <2> QED
    BY <2>3, <2>4, <2>5
<1>6. CASE AbortMultipartUpload
  <2>1. DOMAIN request' = Callers /\ \A w \in Workers : request'[w] = request[w]
    BY <1>6, MainRequest DEF AbortMultipartUpload
  <2>2. Typed' /\ WorkersOK' /\ Quiet'
    <3>1. Typed'
      BY <1>6, <2>1 DEF AbortMultipartUpload, Typed, Stages
    <3>2. WorkersOK'
      BY <1>6, <2>1 DEF AbortMultipartUpload, WorkersOK
    <3>3. Quiet'
      BY <1>6, <2>1 DEF AbortMultipartUpload, Quiet
    <3> QED
      BY <3>1, <3>2, <3>3
  <2> QED
    BY <1>6, <2>2 DEF AbortMultipartUpload, PartsOK, ObjectOK, InChannel, Held
<1>7. CASE RetryMain
  <2>1. DOMAIN request' = Callers /\ \A w \in Workers : request'[w] = request[w]
    <3>1. PICK r : Then("main", r)
      BY <1>7 DEF RetryMain, BackOff, Resend
    <3> QED
      BY <3>1, MainRequest
  <2>2. Typed' /\ WorkersOK' /\ Quiet'
    <3>1. Typed'
      BY <1>7, <2>1 DEF RetryMain, Typed
    <3>2. WorkersOK'
      BY <1>7, <2>1 DEF RetryMain, WorkersOK
    <3>3. Quiet'
      BY <1>7, <2>1 DEF RetryMain, Quiet
    <3> QED
      BY <3>1, <3>2, <3>3
  <2>3. PartsOK' /\ ObjectOK'
    BY <1>7 DEF RetryMain, PartsOK, ObjectOK, InChannel, Held
  <2> QED
    BY <2>2, <2>3
<1> QED
  BY <1>1, <1>2, <1>3, <1>4, <1>5, <1>6, <1>7 DEF Upload

LEMMA InvStep == Inv /\ [Next]_vars => Inv'
<1> SUFFICES ASSUME Inv, [Next]_vars PROVE Inv'
  OBVIOUS
<1>1. CASE UNCHANGED vars
  BY <1>1 DEF vars, retryVars, uploadVars, Inv, Typed, WorkersOK, Quiet, PartsOK, ObjectOK,
              InChannel, Held
<1>2. CASE Upload
  BY <1>2, UploadStep
<1>3. ASSUME NEW w \in Workers, Worker(w) PROVE Inv'
  BY <1>3, ReceiveStep, StartPartStep, UploadPartStep, RetryPartStep DEF Worker
<1> QED
  BY <1>1, <1>2, <1>3 DEF Next

-----------------------------------------------------------------------------
(* Without an error no part is lost between the channel, the workers and   *)
(* S3, and an object is made of all parts, for any number of either.       *)
THEOREM InvCorrect == Spec => []Inv
  BY InvInit, InvStep, PTL DEF Spec

(* After the return nothing of what the driver sees changes any more.      *)
LEMMA ReturnedStays ==
  ASSUME Inv, [Next]_vars, Returned
  PROVE  UNCHANGED <<pc, failed, object>>
<1> USE DEF Inv, Returned
<1>1. CASE Upload
  BY <1>1 DEF Upload, CreateMultipartUpload, QueuePart, NextPart, Wait,
              CompleteMultipartUpload, AbortMultipartUpload, RetryMain
<1>2. ASSUME NEW w \in Workers, Worker(w) PROVE UNCHANGED <<pc, failed, object>>
  <2>1. request[w] = NoRequest /\ ~(holds[w] > 0)
    BY DEF WorkersOK, Quiet, Typed
  <2> QED
    BY <1>2, <2>1 DEF Worker, Receive, StartPart, UploadPart, RetryPart, Succeed, GiveUp,
                      Sending, NoRequest, uploadVars, BackOff, Resend
<1> QED
  BY <1>1, <1>2 DEF Next, vars, uploadVars

(* Upload() implements the step the drivers take it for, for any workers,  *)
(* parts, attempts and tokens.                                             *)
THEOREM UploadIsOneStep == Spec => ImplementsUpload
<1> DEFINE seen == <<Objects, Returned, failed /\ Returned>>
<1>1. Init => Driver!Init
  BY DEF Init, Driver!Init, Objects, Returned
<1>2. ASSUME Inv, Inv', [Next]_vars PROVE [Driver!UploadImage]_seen
  <2>1. CASE Returned
    <3>1. pc' = pc /\ failed' = failed /\ object' = object
      BY <1>2, <2>1, ReturnedStays
    <3>2. Returned' = Returned /\ Objects' = Objects
      BY <3>1 DEF Returned, Objects, AllParts
    <3>3. (failed /\ Returned)' = (failed /\ Returned)
      BY <3>1, <3>2
    <3> QED
      BY <3>2, <3>3
  <2>2. CASE ~Returned /\ ~Returned'
    <3>1. Objects' = Objects
      BY <2>2 DEF Objects
    <3>2. Returned' = Returned /\ (failed /\ Returned)' = (failed /\ Returned)
      BY <2>2 DEF Returned
    <3> QED
      BY <3>1, <3>2
  <2>3. CASE ~Returned /\ Returned'
    <3>1. AllParts # {}
      BY UploadAssumption DEF AllParts
    <3>2. /\ Objects = {}
          /\ Objects' \in {{}, {"image"}}
          /\ ~failed' => Objects' = {"image"}
      BY <1>2, <2>3, <3>1 DEF Inv, ObjectOK, Objects, Returned, AllParts
    <3>3. Driver!UploadImage
      BY <2>3, <3>2 DEF Driver!UploadImage, Driver!Goto, Driver!Fail, Driver!deleteVars
    <3> QED
      BY <3>3
  <2> QED
    BY <2>1, <2>2, <2>3
<1> QED
  BY <1>1, <1>2, InvCorrect, PTL DEF Spec, ImplementsUpload
=============================================================================
