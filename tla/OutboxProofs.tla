---------------------------- MODULE OutboxProofs ----------------------------
(***************************************************************************)
(* Proofs about Outbox.  Sane, that the outbox says "queued" only of what  *)
(* was accepted, is inductive for calls in one process and in several      *)
(* (whose writes are whole: the temporary name they share is not in the    *)
(* model).  For the calls of one process, whatever a send has saved is     *)
(* accepted by a server or waits in the outbox.                            *)
(***************************************************************************)
EXTENDS Outbox, TLAPS

USE DEF DeliveryStatus, Delivery, File

(* A call under way has its object, and one about to mark its outcome,     *)
(* which is "queued" only for an envelope that was accepted.               *)
OutcomesAreTrue ==
    /\ \A c \in Call : pc[c] # "idle" => object[c] \in Object
    /\ \A c \in Call : pc[c] \in {"answered", "mark"} =>
          /\ outcome[c] \in Delivery
          /\ outcome[c].status = "queued" => outcome[c].env \in accepted

(* What a call has loaded, however old, says "queued" only of envelopes    *)
(* that were accepted.                                                     *)
ViewsAreTrue ==
    \A c \in Call : pc[c] \in {"save", "mark"} =>
        /\ view[c] \in File
        /\ \A d \in view[c].deliveries : d.status = "queued" => d.env \in accepted

Sane ==
    /\ TypeOK
    /\ OutcomesAreTrue
    /\ ViewsAreTrue
    /\ QueuedIsAccepted

(* What a call has loaded is what is on file, until the call writes it.    *)
ViewIsFile == \A c \in Call : pc[c] \in {"save", "mark"} => view[c] = file

(* One call at a time is between a load and its write.                     *)
OneAtATime == \A c, d \in Call : InOneGo(c) /\ InOneGo(d) => c = d

IInv ==
    /\ Sane
    /\ ViewIsFile
    /\ OneAtATime
    /\ NothingIsLost

-----------------------------------------------------------------------------
(* What save and mark do to the file.                                      *)

LEMMA SavedFacts ==
    ASSUME NEW f \in File, NEW o \in Object
    PROVE  /\ Saved(f, o) \in File
           /\ Waiting(f) \subseteq Waiting(Saved(f, o))
           /\ EnvelopesOf(o) \subseteq Waiting(Saved(f, o))
           /\ \A d \in Saved(f, o).deliveries :
                 d.status = "queued" => d \in f.deliveries
<1> DEFINE new == {[env |-> e, status |-> "pending"] : e \in EnvelopesOf(o)}
<1>1. /\ Saved(f, o).deliveries = f.deliveries \cup new
      /\ Saved(f, o) \in [objects : SUBSET Object, deliveries : SUBSET (f.deliveries \cup new)]
  BY DEF Saved, Kept, FirstStatus
<1>2. new \subseteq Delivery /\ \A d \in new : d.status = "pending"
  BY DEF EnvelopesOf
<1>3. ASSUME NEW e \in EnvelopesOf(o)
      PROVE  \E d \in new : d.env = e
  <2>1. [env |-> e, status |-> "pending"] \in new
    OBVIOUS
  <2> QED  BY <2>1
<1> HIDE DEF new
<1> QED
  BY <1>1, <1>2, <1>3 DEF Waiting

LEMMA MarkedFacts ==
    ASSUME NEW f \in File, NEW e \in Envelope, NEW status \in DeliveryStatus
    PROVE  /\ Marked(f, e, status) \in File
           /\ \A g \in Waiting(f) :
                 g \in Waiting(Marked(f, e, status)) \/ (g = e /\ status = "queued")
           /\ \A d \in Marked(f, e, status).deliveries :
                 d.status = "queued" => d \in f.deliveries \/ (d.env = e /\ status = "queued")
<1> DEFINE Changed(d) == IF d.env.id = e.id THEN [d EXCEPT !.status = status] ELSE d
           deliveries == {Changed(d) : d \in f.deliveries}
           unfinished == {d.env.object.content : d \in {x \in deliveries : x.status # "queued"}}
<1>1. /\ Marked(f, e, status).objects = {o \in f.objects : o.content \in unfinished}
      /\ Marked(f, e, status).deliveries = {d \in deliveries : d.env.object.content \in unfinished}
      /\ Marked(f, e, status) = [objects |-> {o \in f.objects : o.content \in unfinished},
                deliveries |-> {d \in deliveries : d.env.object.content \in unfinished}]
  BY DEF Marked
<1>2. \A d \in f.deliveries :
         /\ Changed(d) \in Delivery
         /\ Changed(d).env = d.env
         /\ Changed(d).status = IF d.env.id = e.id THEN status ELSE d.status
         /\ d.env.id = e.id => d.env = e
  BY OutboxAssumption
<1>3. Marked(f, e, status) \in File
  BY <1>1, <1>2
<1>4. ASSUME NEW g \in Waiting(f), ~ (g = e /\ status = "queued")
      PROVE  g \in Waiting(Marked(f, e, status))
  <2>1. PICK d \in f.deliveries : d.env = g /\ d.status # "queued"
    BY DEF Waiting
  <2>2. Changed(d) \in deliveries /\ Changed(d).status # "queued" /\ Changed(d).env = g
    BY <2>1, <1>2, <1>4
  <2>3. g.object.content \in unfinished
    BY <2>2
  <2> HIDE DEF deliveries, unfinished, Changed
  <2>4. Changed(d) \in Marked(f, e, status).deliveries
    BY <2>2, <2>3, <1>1
  <2> QED
    BY <2>2, <2>4 DEF Waiting
<1>5. ASSUME NEW d \in Marked(f, e, status).deliveries, d.status = "queued"
      PROVE  d \in f.deliveries \/ (d.env = e /\ status = "queued")
  BY <1>1, <1>2, <1>5
<1> QED
  BY <1>3, <1>4, <1>5

LEMMA BatchFacts ==
    ASSUME NEW f \in File
    PROVE  PendingBatch(f) \subseteq Envelope
  BY DEF PendingBatch, Waiting

(* A call that returns or dies leaves nothing behind but what it wrote.    *)
LEMMA LeaveFacts ==
    ASSUME TypeOK, NEW calls \in SUBSET Call, Leave(calls)
    PROVE  /\ pc' \in [Call -> {"idle", "save", "upload", "next", "answered", "mark"}]
           /\ kind' \in [Call -> {"send", "retry", "failing"}]
           /\ object' \in [Call -> Object \cup {Null}]
           /\ todo' \in [Call -> SUBSET Envelope]
           /\ \A c \in calls : pc'[c] = "idle"
           /\ \A c \in Call \ calls :
                 /\ pc'[c] = pc[c] /\ kind'[c] = kind[c] /\ object'[c] = object[c]
  BY DEF TypeOK, Leave

-----------------------------------------------------------------------------
(* Sane is inductive, for one process and for several.                     *)

LEMMA InitSane == Init => Sane
  BY OutboxAssumption DEF Init, Sane, TypeOK, OutcomesAreTrue, ViewsAreTrue, QueuedIsAccepted

LEMMA NextSane ==
    ASSUME Sane, [Next]_vars
    PROVE  Sane'
<1> USE OutboxAssumption
<1>1. ASSUME NEW c \in Call, NEW o \in Object, StartSend(c, o)
      PROVE  Sane'
  <2>1. TypeOK'
    BY <1>1 DEF Sane, TypeOK, StartSend, Load, Goto, EnvelopesOf, serverVars, bounds
  <2>2. OutcomesAreTrue'
    BY <1>1 DEF Sane, TypeOK, StartSend, Goto, OutcomesAreTrue, serverVars
  <2>3. ViewsAreTrue' /\ QueuedIsAccepted'
    BY <1>1 DEF Sane, TypeOK, StartSend, Load, Goto, ViewsAreTrue, QueuedIsAccepted, serverVars
  <2> QED  BY <2>1, <2>2, <2>3 DEF Sane
<1>2. ASSUME NEW c \in Call, Save(c)
      PROVE  Sane'
  <2>1. /\ view[c] \in File /\ object[c] \in Object
        /\ file' = Saved(view[c], object[c])
        /\ \A d \in view[c].deliveries : d.status = "queued" => d.env \in accepted
    BY <1>2 DEF Sane, Save, Write, ViewsAreTrue, OutcomesAreTrue
  <2>2. /\ file' \in File
        /\ \A d \in file'.deliveries : d.status = "queued" => d \in view[c].deliveries
    BY <2>1, SavedFacts
  <2>3. TypeOK'
    BY <1>2, <2>1, <2>2 DEF Sane, TypeOK, Save, Write, Goto, serverVars, bounds
  <2>4. OutcomesAreTrue' /\ ViewsAreTrue'
    BY <1>2 DEF Sane, TypeOK, Save, Write, Goto, ViewsAreTrue, OutcomesAreTrue, serverVars
  <2>5. QueuedIsAccepted'
    BY <1>2, <2>1, <2>2 DEF Save, QueuedIsAccepted, serverVars
  <2> QED  BY <2>3, <2>4, <2>5 DEF Sane
<1>3. ASSUME NEW c \in Call, StartRetry(c)
      PROVE  Sane'
  <2>0. PendingBatch(file) \subseteq Envelope
    BY BatchFacts DEF Sane, TypeOK
  <2>1. TypeOK'
    BY <1>3, <2>0 DEF Sane, TypeOK, StartRetry, Goto, serverVars, bounds
  <2>2. OutcomesAreTrue' /\ ViewsAreTrue' /\ QueuedIsAccepted'
    BY <1>3 DEF Sane, TypeOK, StartRetry, Goto, ViewsAreTrue, OutcomesAreTrue,
       QueuedIsAccepted, serverVars
  <2> QED  BY <2>1, <2>2 DEF Sane
<1>4. ASSUME NEW c \in Call, UploadSucceeds(c)
      PROVE  Sane'
  <2>1. object[c] \in Object
    BY <1>4 DEF Sane, OutcomesAreTrue, UploadSucceeds
  <2>2. TypeOK'
    BY <1>4, <2>1 DEF Sane, TypeOK, UploadSucceeds, Goto, bounds
  <2>3. OutcomesAreTrue' /\ ViewsAreTrue' /\ QueuedIsAccepted'
    BY <1>4 DEF Sane, TypeOK, UploadSucceeds, Goto, ViewsAreTrue, OutcomesAreTrue,
       QueuedIsAccepted
  <2> QED  BY <2>2, <2>3 DEF Sane
<1>5. ASSUME NEW c \in Call, UploadFails(c)
      PROVE  Sane'
  <2>0. /\ object[c] \in Object /\ TypeOK /\ OutcomesAreTrue /\ ViewsAreTrue
        /\ pc[c] = "upload"
        /\ UNCHANGED <<file, view, outcome, saved, expired, accepted, crashes>>
        /\ stored' \subseteq Object /\ faults' \in 0..MaxFaults
    BY <1>5 DEF Sane, OutcomesAreTrue, UploadFails, TypeOK
  <2>1. QueuedIsAccepted'
    BY <2>0 DEF Sane, QueuedIsAccepted
  <2>2. CASE kind[c] = "send"
    <3>1. /\ kind' = [kind EXCEPT ![c] = "failing"]
          /\ Goto(c, "next")
          /\ UNCHANGED <<object, todo>>
      BY <1>5, <2>2 DEF UploadFails
    <3>2. TypeOK'
      BY <2>0, <3>1 DEF TypeOK, Goto
    <3>3. OutcomesAreTrue' /\ ViewsAreTrue'
      BY <2>0, <3>1 DEF TypeOK, Goto, ViewsAreTrue, OutcomesAreTrue
    <3> QED  BY <2>1, <3>2, <3>3 DEF Sane
  <2>3. CASE kind[c] = "retry"
    <3>1. Leave({c})
      BY <1>5, <2>3 DEF UploadFails
    <3>2. TypeOK'
      BY <2>0, <3>1, LeaveFacts DEF TypeOK
    <3>3. OutcomesAreTrue' /\ ViewsAreTrue'
      BY <2>0, <3>1, LeaveFacts DEF ViewsAreTrue, OutcomesAreTrue
    <3> QED  BY <2>1, <3>2, <3>3 DEF Sane
  <2> QED  BY <1>5, <2>2, <2>3 DEF UploadFails
<1>6. ASSUME NEW c \in Call, FailNext(c)
      PROVE  Sane'
  <2>1. TypeOK'
    BY <1>6 DEF Sane, TypeOK, FailNext, Becomes, Load, Goto, serverVars, bounds
  <2>2. OutcomesAreTrue'
    BY <1>6 DEF Sane, TypeOK, FailNext, Becomes, Goto, OutcomesAreTrue, serverVars
  <2>3. ViewsAreTrue' /\ QueuedIsAccepted'
    BY <1>6 DEF Sane, TypeOK, FailNext, Load, Goto, ViewsAreTrue, QueuedIsAccepted, serverVars
  <2> QED  BY <2>1, <2>2, <2>3 DEF Sane
<1>7. ASSUME NEW c \in Call, NEW e \in Envelope, Submit(c, e)
      PROVE  Sane'
  <2>1. /\ accepted \subseteq accepted' /\ accepted' \subseteq Envelope
        /\ file' = file /\ view' = view
    BY <1>7 DEF Sane, TypeOK, Submit
  <2>2. TypeOK'
    BY <1>7, <2>1 DEF Sane, TypeOK, Submit, Becomes, Goto, Unanswered
  <2>3. OutcomesAreTrue'
    BY <1>7, <2>1 DEF Sane, TypeOK, Submit, Becomes, Goto, Unanswered, OutcomesAreTrue
  <2>4. ViewsAreTrue' /\ QueuedIsAccepted'
    BY <1>7, <2>1 DEF Sane, TypeOK, Submit, Goto, ViewsAreTrue, QueuedIsAccepted
  <2> QED  BY <2>2, <2>3, <2>4 DEF Sane
<1>8. ASSUME NEW c \in Call, Answered(c)
      PROVE  Sane'
  <2>1. TypeOK'
    BY <1>8 DEF Sane, TypeOK, Answered, Load, Goto, serverVars, bounds
  <2>2. OutcomesAreTrue'
    BY <1>8 DEF Sane, TypeOK, Answered, Goto, OutcomesAreTrue, serverVars
  <2>3. ViewsAreTrue' /\ QueuedIsAccepted'
    BY <1>8 DEF Sane, TypeOK, Answered, Load, Goto, ViewsAreTrue, QueuedIsAccepted, serverVars
  <2> QED  BY <2>1, <2>2, <2>3 DEF Sane
<1>9. ASSUME NEW c \in Call, Mark(c)
      PROVE  Sane'
  <2> DEFINE e == outcome[c].env
             status == outcome[c].status
  <2>1. /\ view[c] \in File
        /\ \A d \in view[c].deliveries : d.status = "queued" => d.env \in accepted
        /\ e \in Envelope /\ status \in DeliveryStatus
        /\ status = "queued" => e \in accepted
        /\ file' = Marked(view[c], e, status)
    BY <1>9 DEF Sane, Mark, Write, ViewsAreTrue, OutcomesAreTrue
  <2> HIDE DEF e, status
  <2>2. /\ file' \in File
        /\ \A d \in file'.deliveries :
              d.status = "queued" => d \in view[c].deliveries \/ (d.env = e /\ status = "queued")
    BY <2>1, MarkedFacts
  <2>3. /\ view' = [view EXCEPT ![c] = Null]
        /\ outcome' = [outcome EXCEPT ![c] = Null]
        /\ pc[c] = "mark" /\ TypeOK /\ OutcomesAreTrue /\ ViewsAreTrue
        /\ UNCHANGED <<saved, stored, expired, accepted, faults, crashes>>
    BY <1>9 DEF Mark, Write, Sane, serverVars, bounds
  <2>4. TypeOK' /\ OutcomesAreTrue' /\ ViewsAreTrue'
    <3>1. CASE Leave({c})
      <4>1. TypeOK'
        BY <2>2, <2>3, <3>1, LeaveFacts DEF TypeOK
      <4>2. OutcomesAreTrue' /\ ViewsAreTrue'
        BY <2>3, <3>1, LeaveFacts DEF TypeOK, ViewsAreTrue, OutcomesAreTrue
      <4> QED  BY <4>1, <4>2
    <3>2. CASE ~ Leave({c})
      <4>1. /\ todo' = [todo EXCEPT ![c] = todo[c] \ {outcome[c].env}]
            /\ Goto(c, "next")
            /\ UNCHANGED <<kind, object>>
        BY <1>9, <3>2 DEF Mark
      <4>2. TypeOK'
        BY <2>2, <2>3, <4>1 DEF TypeOK, Goto
      <4>3. OutcomesAreTrue' /\ ViewsAreTrue'
        BY <2>3, <4>1 DEF TypeOK, Goto, ViewsAreTrue, OutcomesAreTrue
      <4> QED  BY <4>2, <4>3
    <3> QED  BY <3>1, <3>2
  <2>5. QueuedIsAccepted'
    BY <2>1, <2>2, <2>3 DEF QueuedIsAccepted
  <2> QED  BY <2>4, <2>5 DEF Sane
<1>10. ASSUME NEW c \in Call, Crash(c)
       PROVE  Sane'
  <2> DEFINE dead == IF Shared THEN {c} ELSE Call
  <2>1. /\ dead \in SUBSET Call /\ Leave(dead)
        /\ TypeOK /\ OutcomesAreTrue /\ ViewsAreTrue
        /\ crashes' \in 0..MaxCrashes
        /\ view' = [d \in Call |-> IF d \in dead THEN Null ELSE view[d]]
        /\ outcome' = [d \in Call |-> IF d \in dead THEN Null ELSE outcome[d]]
        /\ UNCHANGED <<file, saved, stored, expired, accepted, faults>>
    BY <1>10 DEF Sane, TypeOK, Crash, serverVars
  <2> HIDE DEF dead
  <2>2. TypeOK'
    BY <2>1, LeaveFacts DEF TypeOK
  <2>3. OutcomesAreTrue' /\ ViewsAreTrue'
    BY <2>1, LeaveFacts DEF ViewsAreTrue, OutcomesAreTrue
  <2>4. QueuedIsAccepted'
    BY <2>1 DEF Sane, QueuedIsAccepted
  <2> QED  BY <2>2, <2>3, <2>4 DEF Sane
<1>11. ASSUME NEW o \in Object, Expire(o)
       PROVE  Sane'
  BY <1>11 DEF Sane, TypeOK, Expire, ViewsAreTrue, OutcomesAreTrue, QueuedIsAccepted,
     callVars, bounds
<1>12. ASSUME Prune
       PROVE  Sane'
  BY <1>12 DEF Sane, TypeOK, Prune, ViewsAreTrue, OutcomesAreTrue, QueuedIsAccepted,
     callVars, bounds
<1>13. ASSUME UNCHANGED vars
       PROVE  Sane'
  BY <1>13 DEF Sane, TypeOK, ViewsAreTrue, OutcomesAreTrue, QueuedIsAccepted,
     vars, callVars, serverVars, bounds
<1> QED
  BY <1>1, <1>2, <1>3, <1>4, <1>5, <1>6, <1>7, <1>8, <1>9, <1>10, <1>11, <1>12, <1>13
     DEF Next, Proceed

-----------------------------------------------------------------------------
(* In one process no call works from an old copy of the file.              *)

LEMMA InitIInv == Init => IInv
  BY InitSane DEF Init, IInv, ViewIsFile, OneAtATime, NothingIsLost, InOneGo

LEMMA NextIInv ==
    ASSUME Shared = FALSE, IInv, [Next]_vars
    PROVE  IInv'
<1>0. TypeOK /\ OutcomesAreTrue /\ ViewIsFile /\ OneAtATime /\ NothingIsLost /\ Sane'
  BY NextSane DEF IInv, Sane
<1>1. ASSUME NEW c \in Call, NEW o \in Object, StartSend(c, o)
      PROVE  IInv'
  <2>1. ViewIsFile' /\ OneAtATime'
    BY <1>0, <1>1 DEF TypeOK, StartSend, Load, Goto, Turn, InOneGo, ViewIsFile, OneAtATime
  <2>2. NothingIsLost'
    BY <1>0, <1>1 DEF StartSend, NothingIsLost, Waiting, serverVars
  <2> QED  BY <1>0, <2>1, <2>2 DEF IInv
<1>2. ASSUME NEW c \in Call, Save(c)
      PROVE  IInv'
  <2>1. view[c] = file /\ file \in File /\ object[c] \in Object /\ file' = Saved(file, object[c])
    BY <1>0, <1>2 DEF TypeOK, Save, Write, ViewIsFile, OutcomesAreTrue
  <2>2. /\ Waiting(file) \subseteq Waiting(file')
        /\ EnvelopesOf(object[c]) \subseteq Waiting(file')
    BY <2>1, SavedFacts
  <2>3. ViewIsFile' /\ OneAtATime'
    BY <1>0, <1>2 DEF TypeOK, Save, Write, Goto, InOneGo, ViewIsFile, OneAtATime
  <2>4. NothingIsLost'
    BY <1>0, <1>2, <2>2 DEF Save, NothingIsLost, EnvelopesOf, serverVars
  <2> QED  BY <1>0, <2>3, <2>4 DEF IInv
<1>3. ASSUME NEW c \in Call, StartRetry(c)
      PROVE  IInv'
  <2>1. ViewIsFile' /\ OneAtATime'
    BY <1>0, <1>3 DEF TypeOK, StartRetry, Goto, InOneGo, ViewIsFile, OneAtATime
  <2>2. NothingIsLost'
    BY <1>0, <1>3 DEF StartRetry, NothingIsLost, Waiting, serverVars
  <2> QED  BY <1>0, <2>1, <2>2 DEF IInv
<1>4. ASSUME NEW c \in Call, UploadSucceeds(c)
      PROVE  IInv'
  <2>1. ViewIsFile' /\ OneAtATime'
    BY <1>0, <1>4 DEF TypeOK, UploadSucceeds, Goto, Turn, InOneGo, ViewIsFile, OneAtATime
  <2>2. NothingIsLost'
    BY <1>0, <1>4 DEF UploadSucceeds, NothingIsLost, Waiting
  <2> QED  BY <1>0, <2>1, <2>2 DEF IInv
<1>5. ASSUME NEW c \in Call, UploadFails(c)
      PROVE  IInv'
  <2>0. pc[c] = "upload" /\ UNCHANGED <<file, view, saved, accepted>>
    BY <1>5 DEF UploadFails
  <2>1. NothingIsLost'
    BY <1>0, <2>0 DEF NothingIsLost, Waiting
  <2>2. ViewIsFile' /\ OneAtATime'
    <3>1. CASE kind[c] = "send"
      BY <1>0, <1>5, <3>1 DEF TypeOK, UploadFails, Goto, Turn, InOneGo, ViewIsFile, OneAtATime
    <3>2. CASE kind[c] = "retry"
      <4>1. Leave({c})
        BY <1>5, <3>2 DEF UploadFails
      <4> QED
        BY <1>0, <2>0, <4>1, LeaveFacts DEF InOneGo, ViewIsFile, OneAtATime
    <3> QED  BY <1>5, <3>1, <3>2 DEF UploadFails
  <2> QED  BY <1>0, <2>1, <2>2 DEF IInv
<1>6. ASSUME NEW c \in Call, FailNext(c)
      PROVE  IInv'
  <2>1. ViewIsFile' /\ OneAtATime'
    BY <1>0, <1>6 DEF TypeOK, FailNext, Load, Goto, InOneGo, ViewIsFile, OneAtATime
  <2>2. NothingIsLost'
    BY <1>0, <1>6 DEF FailNext, NothingIsLost, Waiting, serverVars
  <2> QED  BY <1>0, <2>1, <2>2 DEF IInv
<1>7. ASSUME NEW c \in Call, NEW e \in Envelope, Submit(c, e)
      PROVE  IInv'
  <2>1. accepted \subseteq accepted' /\ UNCHANGED <<file, saved>>
    BY <1>7 DEF Submit
  <2>2. ViewIsFile' /\ OneAtATime'
    BY <1>0, <1>7 DEF TypeOK, Submit, Goto, InOneGo, ViewIsFile, OneAtATime
  <2>3. NothingIsLost'
    BY <1>0, <2>1 DEF NothingIsLost, Waiting
  <2> QED  BY <1>0, <2>2, <2>3 DEF IInv
<1>8. ASSUME NEW c \in Call, Answered(c)
      PROVE  IInv'
  <2>1. ViewIsFile' /\ OneAtATime'
    BY <1>0, <1>8 DEF TypeOK, Answered, Load, Goto, Turn, InOneGo, ViewIsFile, OneAtATime
  <2>2. NothingIsLost'
    BY <1>0, <1>8 DEF Answered, NothingIsLost, Waiting, serverVars
  <2> QED  BY <1>0, <2>1, <2>2 DEF IInv
<1>9. ASSUME NEW c \in Call, Mark(c)
      PROVE  IInv'
  <2> DEFINE e == outcome[c].env
             status == outcome[c].status
  <2>1. /\ view[c] = file /\ file \in File
        /\ e \in Envelope /\ status \in DeliveryStatus
        /\ status = "queued" => e \in accepted
        /\ file' = Marked(file, e, status)
    BY <1>0, <1>9 DEF TypeOK, Mark, Write, ViewIsFile, OutcomesAreTrue
  <2> HIDE DEF e, status
  <2>2. \A g \in Waiting(file) : g \in Waiting(file') \/ (g = e /\ status = "queued")
    BY <2>1, MarkedFacts
  <2>3. /\ view' = [view EXCEPT ![c] = Null]
        /\ pc[c] = "mark"
        /\ UNCHANGED <<saved, accepted>>
    BY <1>9 DEF Mark, Write, serverVars
  <2>4. ViewIsFile' /\ OneAtATime'
    <3>1. CASE Leave({c})
      BY <1>0, <2>3, <3>1, LeaveFacts DEF TypeOK, InOneGo, ViewIsFile, OneAtATime
    <3>2. CASE ~ Leave({c})
      <4>1. Goto(c, "next") /\ UNCHANGED kind
        BY <1>9, <3>2 DEF Mark
      <4> QED
        BY <1>0, <2>3, <4>1 DEF TypeOK, Goto, InOneGo, ViewIsFile, OneAtATime
    <3> QED  BY <3>1, <3>2
  <2>5. NothingIsLost'
    BY <1>0, <2>1, <2>2, <2>3 DEF NothingIsLost
  <2> QED  BY <1>0, <2>4, <2>5 DEF IInv
<1>10. ASSUME NEW c \in Call, Crash(c)
       PROVE  IInv'
  <2>1. Leave(Call) /\ UNCHANGED <<file, saved, accepted>>
    BY <1>10 DEF Crash, serverVars
  <2>2. ViewIsFile' /\ OneAtATime'
    BY <1>0, <2>1, LeaveFacts DEF InOneGo, ViewIsFile, OneAtATime
  <2>3. NothingIsLost'
    BY <1>0, <2>1 DEF NothingIsLost, Waiting
  <2> QED  BY <1>0, <2>2, <2>3 DEF IInv
<1>11. ASSUME UNCHANGED <<file, callVars, saved, accepted>>
       PROVE  IInv'
  BY <1>0, <1>11 DEF IInv, InOneGo, ViewIsFile, OneAtATime, NothingIsLost, Waiting, callVars
<1> QED
  BY <1>1, <1>2, <1>3, <1>4, <1>5, <1>6, <1>7, <1>8, <1>9, <1>10, <1>11
     DEF Next, Proceed, Expire, Prune, vars, callVars, serverVars

-----------------------------------------------------------------------------
(* The outbox file and what each call knows keep their types, whether the  *)
(* calls share a process or not: in particular no delivery on file has a   *)
(* status that mark does not know.                                         *)
THEOREM OutboxTypeCorrect == Spec => []TypeOK
<1>1. Sane => TypeOK
  BY DEF Sane
<1> QED
  BY <1>1, InitSane, NextSane, PTL DEF Spec

(* What is on file as "queued" was accepted by a server, even when calls   *)
(* of several processes overwrite each other's updates: a delivery that    *)
(* they lose may be submitted again or forgotten, but none is taken for    *)
(* delivered that was not.                                                 *)
THEOREM QueuedWasAccepted == Spec => []QueuedIsAccepted
<1>1. Sane => QueuedIsAccepted
  BY DEF Sane
<1> QED
  BY <1>1, InitSane, NextSane, PTL DEF Spec

(* Whatever a send has saved is accepted by a server or waits in the       *)
(* outbox, through lost responses, overlapping calls of one process and    *)
(* crashes, for every limit and every number of calls.                     *)
THEOREM SavedIsNotLost ==
    ASSUME Shared = FALSE
    PROVE  Spec => []NothingIsLost
<1>1. IInv => NothingIsLost
  BY DEF IInv
<1> QED
  BY <1>1, InitIInv, NextIInv, PTL DEF Spec
=============================================================================
