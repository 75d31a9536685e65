-------------------------- MODULE FederationProofs --------------------------
(***************************************************************************)
(* Proofs about Federation, for every set of objects and envelopes and any *)
(* number of faults.  What a request knows depends on where it is: the     *)
(* parts of IInv say what holds there of the lock, of the posts under way  *)
(* and of the answers.                                                     *)
(***************************************************************************)
EXTENDS Federation, SequenceTheorems, TLAPS

(* What is, or was until its deadline, on the peer: it never shrinks.      *)
AtPeer == store["peer"] \cup lapsed["peer"]

(* The envelope arrived, or the peer died over it: what "ok" stands for.   *)
Arrived(e) == Admitted(e) \/ (IsReference(e) /\ e \in cut)

(* The home server only holds what its own clients have put there.         *)
HomeIsOurs == store["home"] \subseteq uploaded

(* A request that uploads holds the lock.                                  *)
UploaderHasLock == \A e \in Envelope : pc[e] = "uploading" => HasLock(e)

(* Content that is posted is what our clients put under that content_id.   *)
PostsMatch ==
    \A p \in posts : p.kind = "content" => p.object \in uploaded /\ p.object.id = p.env.id

(* A post that is half-way through admission has its replay row, and the   *)
(* content that it was checked with is there.                              *)
HalfAdmitted ==
    \A p \in posts : p.kind = "remembered" =>
        /\ p.env \in remembered
        /\ p.object # Null => p.object \in AtPeer /\ Key(p.object) = Key(p.env)

(* A replay row without an envelope is half-way through admission, or the  *)
(* peer died over it.                                                      *)
RememberedIsAdmitted ==
    \A e \in remembered :
        \/ Admitted(e)
        \/ e \in cut
        \/ \E p \in posts : p.kind = "remembered" /\ p.env = e

(* A post that is awaited is the only one of its request, which has no     *)
(* answer yet and is where that post was sent from.                        *)
LivePosts ==
    \A p \in posts : p.live =>
        /\ pc[p.env] = IF p.kind = "content" THEN "uploading" ELSE "posting"
        /\ answer[p.env] = Null
        /\ \A q \in posts : q.live /\ q.env = p.env => q = p

(* The answer "ok" means what the request that gets it takes it for.       *)
AnswersAreTrue ==
    \A e \in Envelope :
        /\ answer[e] # Null => pc[e] \in {"uploading", "posting"}
        /\ answer[e] = "ok" /\ pc[e] = "uploading" => \E o \in uploaded \cap AtPeer : o.id = e.id
        /\ answer[e] = "ok" /\ pc[e] = "posting" => Arrived(e)

IInv ==
    /\ TypeOK
    /\ HomeIsOurs
    /\ UploaderHasLock
    /\ PostsMatch
    /\ HalfAdmitted
    /\ RememberedIsAdmitted
    /\ LivePosts
    /\ AnswersAreTrue
    /\ QueuedHasContent
    /\ TransferredIsThere
    /\ ProxiedIsQueued

-----------------------------------------------------------------------------
(* The operators.                                                          *)

(* put adds at most the object it is given, and only to that server.       *)
LEMMA PutFacts ==
    ASSUME TypeOK, NEW s \in Server, NEW o \in Object, Put(s, o)
    PROVE  /\ store' \in [Server -> SUBSET Object]
           /\ store[s] \subseteq store'[s]
           /\ store'[s] \subseteq store[s] \cup {o}
           /\ Puttable(s, o) => o \in store'[s]
           /\ \A t \in Server \ {s} : store'[t] = store[t]
BY DEF Put, TypeOK

(* What the home server posts.                                             *)
LEMMA PostFacts ==
    ASSUME NEW e \in Envelope
    PROVE  /\ EnvelopePost(e) \in Post
           /\ EnvelopePost(e).env = e /\ EnvelopePost(e).live
           /\ EnvelopePost(e).kind = "envelope"
           /\ \A o \in Object :
                 /\ ContentPost(e, o) \in Post
                 /\ ContentPost(e, o).env = e /\ ContentPost(e, o).live
                 /\ ContentPost(e, o).kind = "content"
BY DEF EnvelopePost, ContentPost, Post, Kind

(* Abandoning posts only changes whether they are awaited.                 *)
LEMMA AbandonedFacts ==
    ASSUME TypeOK, NEW S \in SUBSET Envelope
    PROVE  /\ Abandoned(S) \subseteq Post
           /\ \A p \in Abandoned(S) : \E q \in posts :
                  /\ p.env = q.env /\ p.object = q.object /\ p.kind = q.kind
                  /\ p.live => p = q /\ p.env \notin S
           /\ \A q \in posts : \E p \in Abandoned(S) : p.env = q.env /\ p.kind = q.kind
<1> DEFINE Image(q) == IF q.env \in S THEN [q EXCEPT !.live = FALSE] ELSE q
<1>1. \A q \in posts : q \in Post
    BY DEF TypeOK
<1>2. ASSUME NEW q \in posts
      PROVE  /\ Image(q) \in Post
             /\ Image(q).env = q.env /\ Image(q).object = q.object /\ Image(q).kind = q.kind
             /\ Image(q).live => Image(q) = q /\ q.env \notin S
    BY <1>1 DEF Post
<1>3. Abandoned(S) = {Image(q) : q \in posts}
    BY DEF Abandoned
<1> QED
    BY <1>2, <1>3

(* Only the holder of the lock gives it back, and the line stays a line.   *)
LEMMA ReleaseFacts ==
    ASSUME TypeOK, line # << >>, Release
    PROVE  line' \in Seq(Envelope)
BY HeadTailProperties DEF Release, TypeOK

(* What is or was at the peer, and what was queued or cut there, is so for *)
(* ever, as far as a deadline allows; and so is what was uploaded.         *)
PeerKeeps ==
    /\ AtPeer \subseteq AtPeer'
    /\ queued \subseteq queued'
    /\ remembered \subseteq remembered'
    /\ cut \subseteq cut'
    /\ uploaded \subseteq uploaded'

LEMMA PeerGrows ==
    ASSUME TypeOK, PostsMatch, [Next]_vars
    PROVE  PeerKeeps
<1> USE DEF AtPeer, PeerKeeps
<1>1. CASE UNCHANGED <<store, lapsed, uploaded, mailbox>>
    BY <1>1 DEF mailbox
<1>2. ASSUME NEW s \in Server, NEW o \in Object, Lapse(s, o)
      PROVE  PeerKeeps
    BY <1>2 DEF Lapse, TypeOK, Server, mailbox
<1>3. ASSUME NEW s \in Server, Prune(s)
      PROVE  PeerKeeps
    BY <1>3 DEF Prune, TypeOK, Server, mailbox
<1>4. ASSUME NEW o \in Object, Upload(o)
      PROVE  PeerKeeps
    BY <1>4, PutFacts DEF Upload, Server, mailbox
<1>5. ASSUME NEW o \in Object, ForeignUpload(o)
      PROVE  PeerKeeps
    BY <1>5, PutFacts DEF ForeignUpload, Server, mailbox
<1>6. ASSUME NEW p \in posts, PeerStores(p)
      PROVE  PeerKeeps
  <2>1. p.object \in Object
    BY <1>6 DEF PeerStores, PostsMatch, TypeOK
  <2> QED
    BY <1>6, <2>1, PutFacts DEF PeerStores, Server, mailbox
<1>7. ASSUME NEW p \in posts, PeerRemembers(p) \/ PeerQueues(p)
      PROVE  PeerKeeps
    BY <1>7 DEF PeerRemembers, PeerQueues, stores
<1>8. ASSUME NEW e \in Envelope, ContentGone(e)
      PROVE  PeerKeeps
    BY <1>8 DEF ContentGone, DropExpired, TypeOK, Server, mailbox
<1>9. ASSUME NEW e \in Envelope, Submit(e) \/ GiveUp(e) \/ SkipTransfer(e)
                \/ PostContent(e) \/ ContentDelivered(e) \/ ContentRefused(e)
                \/ EnvelopeAnswered(e)
      PROVE  UNCHANGED <<store, lapsed, uploaded, mailbox>>
    BY <1>9 DEF Submit, GiveUp, SkipTransfer, PostContent, ContentDelivered,
                ContentRefused, EnvelopeAnswered, stores
<1>10. ASSUME HomeCrash \/ UNCHANGED vars
       PROVE  UNCHANGED <<store, lapsed, uploaded, mailbox>>
    BY <1>10 DEF HomeCrash, vars, stores
<1>11. ASSUME NEW p \in posts, Lose(p) \/ PeerRefuses(p) \/ PeerRepeats(p)
       PROVE  UNCHANGED <<store, lapsed, uploaded, mailbox>>
    BY <1>11 DEF Lose, PeerRefuses, PeerRepeats, stores
<1>12. CASE PeerCrash
    BY <1>12 DEF PeerCrash, stores
<1> QED
    BY <1>1, <1>2, <1>3, <1>4, <1>5, <1>6, <1>7, <1>8, <1>9, <1>10, <1>11, <1>12
    DEF Next, Proceed, Handle

-----------------------------------------------------------------------------
(* Types.                                                                  *)

LEMMA TypeStep ==
    ASSUME IInv, [Next]_vars
    PROVE  TypeOK'
<1> USE FederationAssumption DEF IInv
<1>1. ASSUME NEW s \in Server, NEW o \in Object, Lapse(s, o)
      PROVE  TypeOK'
    BY <1>1 DEF Lapse, TypeOK, request, mailbox
<1>2. ASSUME NEW s \in Server, Prune(s)
      PROVE  TypeOK'
    BY <1>2 DEF Prune, TypeOK, request, mailbox
<1>3. ASSUME NEW o \in Object, Upload(o)
      PROVE  TypeOK'
    BY <1>3, PutFacts DEF Upload, TypeOK, request, mailbox, Server
<1>4. ASSUME NEW o \in Object, ForeignUpload(o)
      PROVE  TypeOK'
    BY <1>4, PutFacts DEF ForeignUpload, TypeOK, request, mailbox, Server
<1>5. ASSUME NEW e \in Envelope, Submit(e)
      PROVE  TypeOK'
  <2>1. EnvelopePost(e) \in Post
    BY PostFacts
  <2>2. Append(line, e) \in Seq(Envelope)
    BY AppendProperties DEF TypeOK
  <2> QED
    BY <1>5, <2>1, <2>2 DEF Submit, Goto, TypeOK, stores, mailbox
<1>6. ASSUME NEW e \in Envelope, SkipTransfer(e)
      PROVE  TypeOK'
  <2>1. EnvelopePost(e) \in Post
    BY PostFacts
  <2>2. line' \in Seq(Envelope)
    BY <1>6, ReleaseFacts DEF SkipTransfer, HasLock
  <2> QED
    BY <1>6, <2>1, <2>2 DEF SkipTransfer, Goto, TypeOK, stores, mailbox
<1>7. ASSUME NEW e \in Envelope, ContentGone(e)
      PROVE  TypeOK'
  <2>1. line' \in Seq(Envelope)
    BY <1>7, ReleaseFacts DEF ContentGone, HasLock
  <2> QED
    BY <1>7, <2>1 DEF ContentGone, DropExpired, Goto, TypeOK, mailbox
<1>8. ASSUME NEW e \in Envelope, PostContent(e)
      PROVE  TypeOK'
  <2>1. \A o \in Servable("home", e.id) : ContentPost(e, o) \in Post
    BY PostFacts DEF Servable, TypeOK, Server
  <2> QED
    BY <1>8, <2>1 DEF PostContent, Goto, TypeOK, stores, mailbox
<1>9. ASSUME NEW e \in Envelope, ContentDelivered(e)
      PROVE  TypeOK'
  <2>1. EnvelopePost(e) \in Post
    BY PostFacts
  <2>2. line' \in Seq(Envelope)
    BY <1>9, ReleaseFacts DEF ContentDelivered, UploaderHasLock, HasLock
  <2>4. /\ answer' \in [Envelope -> {"ok", "refused", Null}]
        /\ pc' \in [Envelope -> {"idle", "waiting", "uploading", "posting"}]
    BY <1>9 DEF ContentDelivered, Forget, Goto, TypeOK
  <2>5. /\ posts' \subseteq Post
        /\ transfers' \subseteq {Key(f) : f \in Envelope}
    BY <1>9, <2>1 DEF ContentDelivered, TypeOK
  <2> QED
    BY <1>9, <2>2, <2>4, <2>5 DEF ContentDelivered, TypeOK, stores, mailbox
<1>10. ASSUME NEW e \in Envelope, ContentRefused(e)
       PROVE  TypeOK'
  <2>1. line' \in Seq(Envelope)
    BY <1>10, ReleaseFacts DEF ContentRefused, UploaderHasLock, HasLock
  <2> QED
    BY <1>10, <2>1 DEF ContentRefused, Goto, Forget, TypeOK, stores, mailbox
<1>11. ASSUME NEW e \in Envelope, EnvelopeAnswered(e)
       PROVE  TypeOK'
    BY <1>11 DEF EnvelopeAnswered, Goto, Forget, TypeOK, stores, mailbox
<1>12. ASSUME NEW e \in Envelope, GiveUp(e)
       PROVE  TypeOK'
  <2>1. line' \in Seq(Envelope)
    BY <1>12, ReleaseFacts DEF GiveUp, UploaderHasLock, HasLock, TypeOK
  <2>2. posts' \subseteq Post
    BY <1>12, AbandonedFacts DEF GiveUp
  <2>3. /\ answer' \in [Envelope -> {"ok", "refused", Null}]
        /\ pc' \in [Envelope -> {"idle", "waiting", "uploading", "posting"}]
    BY <1>12 DEF GiveUp, Forget, Goto, TypeOK
  <2>4. faults' \in 0..MaxFaults
    BY <1>12 DEF GiveUp, TypeOK
  <2> QED
    BY <1>12, <2>1, <2>2, <2>3, <2>4 DEF GiveUp, TypeOK, stores, mailbox
<1>13. CASE HomeCrash
  <2>1. posts' \subseteq Post
    BY <1>13, AbandonedFacts DEF HomeCrash
  <2> QED
    BY <1>13, <2>1 DEF HomeCrash, TypeOK, stores, mailbox
<1>14. ASSUME NEW p \in posts, PeerStores(p)
       PROVE  TypeOK'
  <2>1. p \in Post /\ p.object \in Object
    BY <1>14 DEF PeerStores, PostsMatch, TypeOK
  <2>2. answer' \in [Envelope -> {"ok", "refused", Null}]
    BY <1>14, <2>1 DEF PeerStores, Reply, Status, TypeOK, Post
  <2> QED
    BY <1>14, <2>1, <2>2, PutFacts DEF PeerStores, TypeOK, mailbox, Server
<1>15. ASSUME NEW p \in posts, PeerRefuses(p) \/ PeerRepeats(p)
       PROVE  TypeOK'
  <2>1. answer' \in [Envelope -> {"ok", "refused", Null}]
    BY <1>15 DEF PeerRefuses, PeerRepeats, Reply, Status, TypeOK, Post
  <2> QED
    BY <1>15, <2>1 DEF PeerRefuses, PeerRepeats, TypeOK, stores, mailbox
<1>16. ASSUME NEW p \in posts, PeerRemembers(p)
       PROVE  TypeOK'
  <2>1. p \in Post /\ Checked(p.env) \subseteq Object \cup {Null}
    BY DEF Checked, Servable, TypeOK, Server
  <2>2. ASSUME NEW o \in Checked(p.env)
        PROVE  HalfDone(p, o) \in Post
    BY <2>1 DEF HalfDone, Post, Kind
  <2>3. posts' \subseteq Post
    BY <1>16, <2>2 DEF PeerRemembers, TypeOK
  <2> QED
    BY <1>16, <2>1, <2>3 DEF PeerRemembers, TypeOK, Post, stores
<1>17. ASSUME NEW p \in posts, PeerQueues(p)
       PROVE  TypeOK'
  <2>1. p \in Post
    BY DEF TypeOK
  <2>2. answer' \in [Envelope -> {"ok", "refused", Null}]
    BY <1>17, <2>1 DEF PeerQueues, Reply, Status, TypeOK, Post
  <2> QED
    BY <1>17, <2>1, <2>2 DEF PeerQueues, TypeOK, Post, stores
<1>18. ASSUME NEW p \in posts, Lose(p)
       PROVE  TypeOK'
    BY <1>18 DEF Lose, TypeOK, stores, mailbox
<1>19. CASE PeerCrash
    BY <1>19 DEF PeerCrash, TypeOK, Post, stores
<1>20. CASE UNCHANGED vars
    BY <1>20 DEF vars, stores, request, mailbox, TypeOK
<1> QED
    BY <1>1, <1>2, <1>3, <1>4, <1>5, <1>6, <1>7, <1>8, <1>9, <1>10, <1>11, <1>12,
       <1>13, <1>14, <1>15, <1>16, <1>17, <1>18, <1>19, <1>20
    DEF Next, Proceed, Handle

-----------------------------------------------------------------------------
(* The other parts of the invariant, one by one.                           *)

LEMMA HomeStep ==
    ASSUME IInv, [Next]_vars
    PROVE  HomeIsOurs'
<1> USE DEF IInv
<1>1. CASE UNCHANGED <<store, uploaded>>
    BY <1>1 DEF HomeIsOurs
<1>2. ASSUME NEW s \in Server, NEW o \in Object, Lapse(s, o)
      PROVE  UNCHANGED <<store, uploaded>>
    BY <1>2 DEF Lapse
<1>3. ASSUME NEW s \in Server, Prune(s)
      PROVE  HomeIsOurs'
    BY <1>3 DEF Prune, HomeIsOurs, TypeOK, Server
<1>4. ASSUME NEW o \in Object, Upload(o)
      PROVE  HomeIsOurs'
    BY <1>4, PutFacts DEF Upload, HomeIsOurs, Server
<1>5. ASSUME NEW o \in Object, ForeignUpload(o)
      PROVE  HomeIsOurs'
    BY <1>5, PutFacts DEF ForeignUpload, HomeIsOurs, Server
<1>6. ASSUME NEW e \in Envelope, ContentGone(e)
      PROVE  HomeIsOurs'
    BY <1>6 DEF ContentGone, DropExpired, HomeIsOurs, TypeOK, Server
<1>7. ASSUME NEW p \in posts, PeerStores(p)
      PROVE  HomeIsOurs'
  <2>1. p.object \in Object
    BY <1>7 DEF PeerStores, PostsMatch, TypeOK
  <2> QED
    BY <1>7, <2>1, PutFacts DEF PeerStores, HomeIsOurs, Server
<1>8. ASSUME NEW e \in Envelope, Submit(e) \/ GiveUp(e) \/ SkipTransfer(e)
                \/ PostContent(e) \/ ContentDelivered(e) \/ ContentRefused(e)
                \/ EnvelopeAnswered(e)
      PROVE  UNCHANGED <<store, uploaded>>
    BY <1>8 DEF Submit, GiveUp, SkipTransfer, PostContent, ContentDelivered,
                ContentRefused, EnvelopeAnswered, stores
<1>9. ASSUME HomeCrash \/ PeerCrash \/ UNCHANGED vars
      PROVE  UNCHANGED <<store, uploaded>>
    BY <1>9 DEF HomeCrash, PeerCrash, vars, stores
<1>10. ASSUME NEW p \in posts, PeerRefuses(p) \/ PeerRepeats(p) \/ PeerRemembers(p)
                 \/ PeerQueues(p) \/ Lose(p)
       PROVE  UNCHANGED <<store, uploaded>>
    BY <1>10 DEF PeerRefuses, PeerRepeats, PeerRemembers, PeerQueues, Lose, stores
<1> QED
    BY <1>1, <1>2, <1>3, <1>4, <1>5, <1>6, <1>7, <1>8, <1>9, <1>10
    DEF Next, Proceed, Handle

LEMMA LockStep ==
    ASSUME IInv, [Next]_vars
    PROVE  UploaderHasLock'
<1> USE DEF IInv
<1>1. CASE UNCHANGED <<pc, line>>
    BY <1>1 DEF UploaderHasLock, HasLock
<1>2. ASSUME NEW e \in Envelope, Submit(e)
      PROVE  UploaderHasLock'
  <2>1. ASSUME NEW f \in Envelope, pc'[f] = "uploading"
        PROVE  pc[f] = "uploading"
    BY <1>2, <2>1 DEF Submit, Goto, TypeOK
  <2>2. CASE UNCHANGED line
    BY <2>1, <2>2 DEF UploaderHasLock, HasLock
  <2>3. CASE line' = Append(line, e)
    BY <2>1, <2>3, AppendProperties, HeadTailAppend DEF UploaderHasLock, HasLock, TypeOK
  <2> QED
    BY <1>2, <2>2, <2>3 DEF Submit
<1>3. ASSUME NEW e \in Envelope, HasLock(e), Goto(e, "posting") \/ Goto(e, "idle")
      PROVE  UploaderHasLock'
    (* Nobody but e was uploading, and e no longer is. *)
    BY <1>3 DEF UploaderHasLock, HasLock, Goto, TypeOK
<1>4. ASSUME NEW e \in Envelope, PostContent(e)
      PROVE  UploaderHasLock'
    BY <1>4 DEF PostContent, UploaderHasLock, HasLock, Goto, TypeOK
<1>5. ASSUME NEW e \in Envelope, UNCHANGED line, Goto(e, "idle")
      PROVE  UploaderHasLock'
    BY <1>5 DEF UploaderHasLock, HasLock, Goto, TypeOK
<1>6. ASSUME NEW e \in Envelope, SkipTransfer(e) \/ ContentGone(e)
                \/ ContentDelivered(e) \/ ContentRefused(e)
      PROVE  HasLock(e) /\ (Goto(e, "posting") \/ Goto(e, "idle"))
    BY <1>6 DEF SkipTransfer, ContentGone, ContentDelivered, ContentRefused,
                UploaderHasLock
<1>7. ASSUME NEW e \in Envelope, EnvelopeAnswered(e)
      PROVE  UploaderHasLock'
    BY <1>5, <1>7 DEF EnvelopeAnswered
<1>8. ASSUME NEW e \in Envelope, GiveUp(e)
      PROVE  UploaderHasLock'
    BY <1>3, <1>5, <1>8 DEF GiveUp, UploaderHasLock
<1>9. CASE HomeCrash
    BY <1>9 DEF HomeCrash, UploaderHasLock
<1>10. ASSUME NEW s \in Server, NEW o \in Object,
              Lapse(s, o) \/ Upload(o) \/ ForeignUpload(o)
       PROVE  UNCHANGED <<pc, line>>
    BY <1>10 DEF Lapse, Upload, ForeignUpload, request
<1>11. ASSUME NEW p \in posts, Handle(p) \/ Lose(p)
       PROVE  UNCHANGED <<pc, line>>
    BY <1>11 DEF Handle, PeerStores, PeerRefuses, PeerRepeats, PeerRemembers,
                 PeerQueues, Lose
<1>12. ASSUME NEW s \in Server, Prune(s)
       PROVE  UNCHANGED <<pc, line>>
    BY <1>12 DEF Prune, request
<1>13. CASE PeerCrash \/ UNCHANGED vars
    BY <1>1, <1>13 DEF PeerCrash, vars, request
<1> QED
    BY <1>1, <1>2, <1>3, <1>4, <1>6, <1>7, <1>8, <1>9, <1>10, <1>11, <1>12, <1>13
    DEF Next, Proceed, Server

LEMMA PostsStep ==
    ASSUME IInv, [Next]_vars
    PROVE  PostsMatch'
<1> USE DEF IInv
<1>0. uploaded \subseteq uploaded'
    BY PeerGrows DEF PeerKeeps
<1>1. CASE posts' \subseteq posts
    BY <1>0, <1>1 DEF PostsMatch
<1>2. ASSUME NEW e \in Envelope, posts' = posts \cup {EnvelopePost(e)}
      PROVE  PostsMatch'
    BY <1>0, <1>2 DEF PostsMatch, EnvelopePost
<1>3. ASSUME NEW S \in SUBSET Envelope, posts' = Abandoned(S)
      PROVE  PostsMatch'
    BY <1>0, <1>3, AbandonedFacts DEF PostsMatch
<1>4. ASSUME NEW e \in Envelope, PostContent(e)
      PROVE  PostsMatch'
  <2>1. PICK o \in Servable("home", e.id) : posts' = posts \cup {ContentPost(e, o)}
    BY <1>4 DEF PostContent
  <2>2. o \in uploaded /\ o.id = e.id
    BY <2>1 DEF Servable, HomeIsOurs
  <2> QED
    BY <1>0, <2>1, <2>2 DEF PostsMatch, ContentPost
<1>5. ASSUME NEW e \in Envelope, Submit(e)
      PROVE  PostsMatch'
    BY <1>1, <1>2, <1>5 DEF Submit
<1>6. ASSUME NEW e \in Envelope, SkipTransfer(e) \/ ContentDelivered(e)
      PROVE  posts' = posts \cup {EnvelopePost(e)}
    BY <1>6 DEF SkipTransfer, ContentDelivered
<1>7. ASSUME NEW e \in Envelope, ContentGone(e) \/ ContentRefused(e) \/ EnvelopeAnswered(e)
      PROVE  posts' \subseteq posts
    BY <1>7 DEF ContentGone, ContentRefused, EnvelopeAnswered
<1>8. ASSUME NEW e \in Envelope, GiveUp(e)
      PROVE  PostsMatch'
    BY <1>3, <1>8 DEF GiveUp
<1>9. CASE HomeCrash
    BY <1>3, <1>9 DEF HomeCrash
<1>10. ASSUME NEW s \in Server, NEW o \in Object,
              Lapse(s, o) \/ Upload(o) \/ ForeignUpload(o)
       PROVE  posts' \subseteq posts
    BY <1>10 DEF Lapse, Upload, ForeignUpload, request
<1>11. ASSUME NEW p \in posts, PeerStores(p) \/ PeerRefuses(p) \/ PeerRepeats(p)
                 \/ PeerQueues(p) \/ Lose(p)
       PROVE  posts' \subseteq posts
    BY <1>11 DEF PeerStores, PeerRefuses, PeerRepeats, PeerQueues, Lose
<1>12. ASSUME NEW p \in posts, PeerRemembers(p)
       PROVE  PostsMatch'
  <2>1. PICK o : posts' = (posts \ {p}) \cup {HalfDone(p, o)}
    BY <1>12 DEF PeerRemembers
  <2> QED
    BY <1>0, <2>1 DEF PostsMatch, HalfDone
<1>13. ASSUME NEW s \in Server, Prune(s)
       PROVE  posts' \subseteq posts
    BY <1>13 DEF Prune, request
<1>14. CASE PeerCrash \/ UNCHANGED vars
    BY <1>1, <1>14 DEF PeerCrash, vars, request
<1> QED
    BY <1>1, <1>2, <1>4, <1>5, <1>6, <1>7, <1>8, <1>9, <1>10, <1>11, <1>12, <1>13, <1>14
    DEF Next, Proceed, Handle, Server

(* The content that an admission checked stays there while it goes on.     *)
LEMMA HalfStep ==
    ASSUME IInv, [Next]_vars
    PROVE  HalfAdmitted'
<1> USE DEF IInv
<1>0. AtPeer \subseteq AtPeer' /\ remembered \subseteq remembered'
    BY PeerGrows DEF PeerKeeps
<1>1. ASSUME \A p \in posts' : p.kind = "remembered" =>
                \E q \in posts : /\ q.kind = "remembered"
                                 /\ p.env = q.env /\ p.object = q.object
      PROVE  HalfAdmitted'
    BY <1>0, <1>1 DEF HalfAdmitted
<1>2. CASE posts' \subseteq posts
    BY <1>1, <1>2
<1>3. ASSUME NEW S \in SUBSET Envelope, posts' = Abandoned(S)
      PROVE  HalfAdmitted'
    BY <1>1, <1>3, AbandonedFacts
<1>4. ASSUME NEW x \in Post, posts' = posts \cup {x}, x.kind # "remembered"
      PROVE  HalfAdmitted'
    BY <1>1, <1>4
<1>5. ASSUME NEW e \in Envelope, Submit(e)
      PROVE  HalfAdmitted'
    BY <1>2, <1>4, <1>5, PostFacts DEF Submit
<1>6. ASSUME NEW e \in Envelope, SkipTransfer(e) \/ ContentDelivered(e)
      PROVE  HalfAdmitted'
    BY <1>4, <1>6, PostFacts DEF SkipTransfer, ContentDelivered
<1>15. ASSUME NEW e \in Envelope, PostContent(e)
      PROVE  HalfAdmitted'
  <2>1. PICK o \in Servable("home", e.id) : posts' = posts \cup {ContentPost(e, o)}
    BY <1>15 DEF PostContent
  <2>2. o \in Object
    BY DEF Servable, TypeOK, Server
  <2> QED
    BY <1>4, <2>1, <2>2, PostFacts
<1>7. ASSUME NEW e \in Envelope, ContentGone(e) \/ ContentRefused(e) \/ EnvelopeAnswered(e)
      PROVE  posts' \subseteq posts
    BY <1>7 DEF ContentGone, ContentRefused, EnvelopeAnswered
<1>8. ASSUME NEW e \in Envelope, GiveUp(e)
      PROVE  HalfAdmitted'
    BY <1>3, <1>8 DEF GiveUp
<1>9. CASE HomeCrash
    BY <1>3, <1>9 DEF HomeCrash
<1>10. ASSUME NEW s \in Server, NEW o \in Object,
              Lapse(s, o) \/ Upload(o) \/ ForeignUpload(o)
       PROVE  posts' \subseteq posts
    BY <1>10 DEF Lapse, Upload, ForeignUpload, request
<1>11. ASSUME NEW p \in posts, PeerStores(p) \/ PeerRefuses(p) \/ PeerRepeats(p)
                 \/ PeerQueues(p) \/ Lose(p)
       PROVE  posts' \subseteq posts
    BY <1>11 DEF PeerStores, PeerRefuses, PeerRepeats, PeerQueues, Lose
<1>12. ASSUME NEW p \in posts, PeerRemembers(p)
       PROVE  HalfAdmitted'
  <2>1. PICK o \in Checked(p.env) :
            posts' = (posts \ {p}) \cup {HalfDone(p, o)}
    BY <1>12 DEF PeerRemembers
  <2>2. HalfDone(p, o).env = p.env /\ HalfDone(p, o).object = o
    BY DEF HalfDone
  <2>3. o # Null => o \in AtPeer /\ Key(o) = Key(p.env)
    BY <2>1 DEF Checked, Servable, AtPeer
  <2>4. p.env \in remembered'
    BY <1>12 DEF PeerRemembers
  <2> QED
    BY <1>0, <2>1, <2>2, <2>3, <2>4 DEF HalfAdmitted
<1>13. ASSUME NEW s \in Server, Prune(s)
       PROVE  posts' \subseteq posts
    BY <1>13 DEF Prune, request
<1>14. CASE PeerCrash \/ UNCHANGED vars
    BY <1>2, <1>14 DEF PeerCrash, vars, request
<1> QED
    BY <1>2, <1>5, <1>6, <1>7, <1>8, <1>9, <1>10, <1>11, <1>12, <1>13, <1>14, <1>15
    DEF Next, Proceed, Handle, Server

(* Every replay row leads to the mailbox, or to a death of the peer.       *)
LEMMA RememberedStep ==
    ASSUME IInv, [Next]_vars
    PROVE  RememberedIsAdmitted'
<1> USE DEF IInv
<1>0. queued \subseteq queued' /\ cut \subseteq cut'
    BY PeerGrows DEF PeerKeeps
<1>1. \A e \in Envelope : Admitted(e) => Admitted(e)'
    BY <1>0 DEF Admitted
<1>2. ASSUME remembered' = remembered,
             \A p \in posts : p.kind = "remembered" =>
                 \/ \E q \in posts' : q.kind = "remembered" /\ q.env = p.env
                 \/ Admitted(p.env)'
                 \/ p.env \in cut'
      PROVE  RememberedIsAdmitted'
  <2> SUFFICES ASSUME NEW e \in remembered'
               PROVE  \/ Admitted(e)' \/ e \in cut'
                      \/ \E p \in posts' : p.kind = "remembered" /\ p.env = e
      BY DEF RememberedIsAdmitted
  <2>1. e \in Envelope /\ e \in remembered
      BY <1>2 DEF TypeOK
  <2> QED
      BY <1>0, <1>1, <1>2, <2>1 DEF RememberedIsAdmitted
<1>3. ASSUME NEW p \in posts, p.kind # "remembered", posts \ {p} \subseteq posts',
             remembered' = remembered
      PROVE  RememberedIsAdmitted'
    BY <1>2, <1>3
<1>4. ASSUME posts \subseteq posts', remembered' = remembered
      PROVE  RememberedIsAdmitted'
    BY <1>2, <1>4
<1>5. ASSUME NEW S \in SUBSET Envelope, posts' = Abandoned(S), remembered' = remembered
      PROVE  RememberedIsAdmitted'
    BY <1>2, <1>5, AbandonedFacts
<1>6. ASSUME NEW e \in Envelope, Submit(e) \/ Proceed(e)
      PROVE  posts \subseteq posts' /\ remembered' = remembered
    BY <1>6 DEF Submit, Proceed, SkipTransfer, ContentGone, PostContent, ContentDelivered,
                ContentRefused, EnvelopeAnswered, mailbox
<1>7. ASSUME NEW e \in Envelope, GiveUp(e)
      PROVE  RememberedIsAdmitted'
    BY <1>5, <1>7 DEF GiveUp, mailbox
<1>8. CASE HomeCrash
    BY <1>5, <1>8 DEF HomeCrash, mailbox
<1>9. ASSUME NEW s \in Server, NEW o \in Object,
             Lapse(s, o) \/ Upload(o) \/ ForeignUpload(o)
      PROVE  posts \subseteq posts' /\ remembered' = remembered
    BY <1>9 DEF Lapse, Upload, ForeignUpload, request, mailbox
<1>10. ASSUME NEW s \in Server, Prune(s)
       PROVE  posts \subseteq posts' /\ remembered' = remembered
    BY <1>10 DEF Prune, request, mailbox
<1>11. ASSUME NEW p \in posts, PeerStores(p) \/ PeerRefuses(p) \/ PeerRepeats(p) \/ Lose(p)
       PROVE  RememberedIsAdmitted'
    BY <1>3, <1>11 DEF PeerStores, PeerRefuses, PeerRepeats, Handled, Lose, mailbox
<1>12. ASSUME NEW p \in posts, PeerRemembers(p)
       PROVE  RememberedIsAdmitted'
  <2>1. PICK o :
            posts' = (posts \ {p}) \cup {HalfDone(p, o)}
    BY <1>12 DEF PeerRemembers
  <2>2. HalfDone(p, o).env = p.env /\ HalfDone(p, o).kind = "remembered"
    BY DEF HalfDone
  <2>3. /\ p.kind = "envelope" /\ remembered' = remembered \cup {p.env}
        /\ remembered \subseteq Envelope
    BY <1>12 DEF PeerRemembers, Handled, TypeOK
  <2>4. ASSUME NEW e \in remembered
        PROVE  \/ Admitted(e)' \/ e \in cut'
               \/ \E q \in posts' : q.kind = "remembered" /\ q.env = e
    BY <1>0, <1>1, <2>1, <2>3 DEF RememberedIsAdmitted
  <2> QED
    BY <2>1, <2>2, <2>3, <2>4 DEF RememberedIsAdmitted
<1>13. ASSUME NEW p \in posts, PeerQueues(p)
       PROVE  RememberedIsAdmitted'
  <2>1. [env |-> p.env, content |-> p.object] \in queued'
    BY <1>13 DEF PeerQueues
  <2>2. Admitted(p.env)'
    BY <2>1 DEF Admitted
  <2> QED
    BY <1>2, <1>13, <2>2 DEF PeerQueues
<1>14. CASE PeerCrash
    BY <1>2, <1>14 DEF PeerCrash
<1>15. CASE UNCHANGED vars
    BY <1>4, <1>15 DEF vars, request, mailbox
<1> QED
    BY <1>4, <1>6, <1>7, <1>8, <1>9, <1>10, <1>11, <1>12, <1>13, <1>14, <1>15
    DEF Next, Handle, Server

LEMMA LiveStep ==
    ASSUME IInv, [Next]_vars
    PROVE  LivePosts'
<1> USE DEF IInv
<1>1. CASE posts' \subseteq posts /\ UNCHANGED <<pc, answer>>
    BY <1>1 DEF LivePosts
<1>2. ASSUME NEW e \in Envelope, \A p \in posts : p.live => p.env # e,
             NEW x \in Post, x.live, x.env = e, posts' = posts \cup {x},
             Goto(e, IF x.kind = "content" THEN "uploading" ELSE "posting"),
             answer'[e] = Null,
             \A f \in Envelope \ {e} : answer'[f] = answer[f]
      PROVE  LivePosts'
  <2>1. ASSUME NEW p \in posts, p.live
        PROVE  /\ p.env \in Envelope \ {e}
               /\ pc'[p.env] = pc[p.env]
               /\ answer'[p.env] = answer[p.env]
    BY <1>2, <2>1 DEF Goto, TypeOK, Post
  <2>2. pc'[e] = IF x.kind = "content" THEN "uploading" ELSE "posting"
    BY <1>2 DEF Goto, TypeOK
  <2> QED
    BY <1>2, <2>1, <2>2 DEF LivePosts
<1>3. ASSUME NEW e \in Envelope, \A p \in posts' : p.live => p \in posts /\ p.env # e,
             Goto(e, "idle"),
             \A f \in Envelope \ {e} : answer'[f] = answer[f]
      PROVE  LivePosts'
  <2>1. ASSUME NEW p \in posts', p.live
        PROVE  /\ p \in posts /\ p.env \in Envelope \ {e}
               /\ pc'[p.env] = pc[p.env]
               /\ answer'[p.env] = answer[p.env]
    BY <1>3, <2>1 DEF Goto, TypeOK, Post
  <2> QED
    BY <2>1 DEF LivePosts
<1>4. ASSUME NEW e \in Envelope, pc[e] \in {"idle", "waiting"} \/ answer[e] # Null
      PROVE  \A p \in posts : p.live => p.env # e
    BY <1>4 DEF LivePosts
<1>5. ASSUME NEW e \in Envelope, pc[e] \in {"idle", "waiting"}
      PROVE  answer[e] = Null
    BY <1>5 DEF AnswersAreTrue
<1>6. ASSUME NEW e \in Envelope, Submit(e)
      PROVE  LivePosts'
  <2>1. CASE posts' = posts \cup {EnvelopePost(e)} /\ Goto(e, "posting")
    BY <1>2, <1>4, <1>5, <1>6, <2>1, PostFacts DEF Submit
  <2>2. CASE posts' = posts /\ Goto(e, "waiting")
    BY <1>4, <1>6, <2>2 DEF Submit, LivePosts, Goto, TypeOK, Post
  <2> QED
    BY <1>6, <2>1, <2>2 DEF Submit
<1>7. ASSUME NEW e \in Envelope, SkipTransfer(e)
      PROVE  LivePosts'
    BY <1>2, <1>4, <1>5, <1>7, PostFacts DEF SkipTransfer
<1>8. ASSUME NEW e \in Envelope, PostContent(e)
      PROVE  LivePosts'
  <2>1. PICK o \in Servable("home", e.id) : posts' = posts \cup {ContentPost(e, o)}
    BY <1>8 DEF PostContent
  <2>2. /\ \A p \in posts : p.live => p.env # e
        /\ answer' = answer /\ answer[e] = Null
    BY <1>4, <1>5, <1>8 DEF PostContent
  <2>3. o \in Object
    BY DEF Servable, TypeOK, Server
  <2> QED
    BY <1>2, <1>8, <2>1, <2>2, <2>3, PostFacts DEF PostContent
<1>9. ASSUME NEW e \in Envelope, ContentDelivered(e)
      PROVE  LivePosts'
  <2>1. \A p \in posts : p.live => p.env # e
    BY <1>4, <1>9, FederationAssumption DEF ContentDelivered, Success
  <2>2. answer'[e] = Null /\ \A f \in Envelope \ {e} : answer'[f] = answer[f]
    BY <1>9 DEF ContentDelivered, Forget, TypeOK
  <2> QED
    BY <1>2, <1>9, <2>1, <2>2, PostFacts DEF ContentDelivered
<1>10. ASSUME NEW e \in Envelope, ContentRefused(e) \/ EnvelopeAnswered(e)
       PROVE  LivePosts'
  <2>1. \A p \in posts : p.live => p.env # e
    BY <1>4, <1>10, FederationAssumption DEF ContentRefused, EnvelopeAnswered
  <2>2. \A f \in Envelope \ {e} : answer'[f] = answer[f]
    BY <1>10 DEF ContentRefused, EnvelopeAnswered, Forget, TypeOK
  <2> QED
    BY <1>3, <1>10, <2>1, <2>2 DEF ContentRefused, EnvelopeAnswered
<1>11. ASSUME NEW e \in Envelope, ContentGone(e)
       PROVE  LivePosts'
    BY <1>3, <1>4, <1>11 DEF ContentGone
<1>12. ASSUME NEW e \in Envelope, GiveUp(e)
       PROVE  LivePosts'
  <2>1. \A p \in posts' : p.live => p \in posts /\ p.env # e
    BY <1>12, AbandonedFacts DEF GiveUp
  <2>2. \A f \in Envelope \ {e} : answer'[f] = answer[f]
    BY <1>12 DEF GiveUp, Forget, TypeOK
  <2> QED
    BY <1>3, <1>12, <2>1, <2>2 DEF GiveUp
<1>13. CASE HomeCrash
  <2>1. \A p \in posts' : ~ p.live
    BY <1>13, AbandonedFacts DEF HomeCrash, TypeOK, Post
  <2> QED
    BY <2>1 DEF LivePosts
<1>14. ASSUME NEW p \in posts, posts' = posts \ {p}, UNCHANGED pc,
              \E status : Reply(p, status)
       PROVE  LivePosts'
    (* The answer is to the one live post of its request, which is gone. *)
  <2>1. ASSUME NEW q \in posts', q.live
        PROVE  answer'[q.env] = answer[q.env] /\ q \in posts
    BY <1>14, <2>1 DEF LivePosts, Reply, TypeOK
  <2> QED
    BY <1>14, <2>1 DEF LivePosts
<1>15. ASSUME NEW p \in posts,
              PeerStores(p) \/ PeerRefuses(p) \/ PeerRepeats(p) \/ PeerQueues(p)
       PROVE  LivePosts'
    BY <1>14, <1>15 DEF PeerStores, PeerRefuses, PeerRepeats, PeerQueues
<1>16. ASSUME NEW p \in posts, PeerRemembers(p)
       PROVE  LivePosts'
    (* The post is still there, and awaited if it was, under another kind. *)
  <2>1. PICK o :
            posts' = (posts \ {p}) \cup {HalfDone(p, o)}
    BY <1>16 DEF PeerRemembers
  <2> DEFINE x == HalfDone(p, o)
  <2>2. x.env = p.env /\ x.live = p.live /\ x.kind = "remembered"
    BY DEF HalfDone
  <2>3. p.kind = "envelope" /\ UNCHANGED <<pc, answer>>
    BY <1>16 DEF PeerRemembers, Handled
  <2>4. posts' = (posts \ {p}) \cup {x}
    BY <2>1
  <2> HIDE DEF x
  <2> QED
    BY <2>2, <2>3, <2>4 DEF LivePosts
<1>17. ASSUME NEW s \in Server, NEW o \in Object,
              Lapse(s, o) \/ Upload(o) \/ ForeignUpload(o)
       PROVE  LivePosts'
    BY <1>1, <1>17 DEF Lapse, Upload, ForeignUpload, request
<1>18. ASSUME NEW s \in Server, Prune(s)
       PROVE  LivePosts'
    BY <1>1, <1>18 DEF Prune, request
<1>19. ASSUME NEW p \in posts, Lose(p)
       PROVE  LivePosts'
    BY <1>1, <1>19 DEF Lose
<1>20. CASE PeerCrash
  <2>1. posts' \subseteq posts
    BY <1>20 DEF PeerCrash
  <2> QED
    BY <1>1, <1>20, <2>1 DEF PeerCrash
<1>21. CASE UNCHANGED vars
    BY <1>1, <1>21 DEF vars, request
<1> QED
    BY <1>6, <1>7, <1>8, <1>9, <1>10, <1>11, <1>12, <1>13, <1>15, <1>16, <1>17, <1>18,
       <1>19, <1>20, <1>21
    DEF Next, Proceed, Handle, Server

LEMMA AnswersStep ==
    ASSUME IInv, [Next]_vars
    PROVE  AnswersAreTrue'
<1> USE DEF IInv
<1>0. /\ AtPeer \subseteq AtPeer' /\ uploaded \subseteq uploaded'
      /\ \A e \in Envelope : Arrived(e) => Arrived(e)'
    BY PeerGrows DEF PeerKeeps, Arrived, Admitted
<1>1. CASE UNCHANGED <<pc, answer>>
    BY <1>0, <1>1 DEF AnswersAreTrue
<1>2. ASSUME NEW e \in Envelope, NEW l, Goto(e, l), answer'[e] = Null,
             \A f \in Envelope \ {e} : answer'[f] = answer[f]
      PROVE  AnswersAreTrue'
  <2>1. \A f \in Envelope \ {e} : pc'[f] = pc[f]
    BY <1>2 DEF Goto, TypeOK
  <2>2. Null # "ok"
    BY FederationAssumption
  <2> QED
    BY <1>0, <1>2, <2>1, <2>2 DEF AnswersAreTrue
<1>3. ASSUME NEW e \in Envelope, Forget(e)
      PROVE  answer'[e] = Null /\ \A f \in Envelope \ {e} : answer'[f] = answer[f]
    BY <1>3 DEF Forget, TypeOK
<1>4. ASSUME NEW e \in Envelope, pc[e] \in {"idle", "waiting"}, UNCHANGED answer
      PROVE  answer'[e] = Null /\ \A f \in Envelope \ {e} : answer'[f] = answer[f]
    BY <1>4 DEF AnswersAreTrue
<1>5. ASSUME NEW e \in Envelope, Submit(e)
      PROVE  AnswersAreTrue'
    BY <1>2, <1>4, <1>5 DEF Submit
<1>6. ASSUME NEW e \in Envelope, SkipTransfer(e) \/ ContentGone(e) \/ PostContent(e)
      PROVE  AnswersAreTrue'
    BY <1>2, <1>4, <1>6 DEF SkipTransfer, ContentGone, PostContent
<1>7. ASSUME NEW e \in Envelope, ContentDelivered(e) \/ ContentRefused(e)
                \/ EnvelopeAnswered(e) \/ GiveUp(e)
      PROVE  AnswersAreTrue'
    BY <1>2, <1>3, <1>7 DEF ContentDelivered, ContentRefused, EnvelopeAnswered, GiveUp
<1>8. CASE HomeCrash
    BY <1>8, FederationAssumption DEF HomeCrash, AnswersAreTrue
<1>9. ASSUME NEW p \in posts, UNCHANGED pc, NEW status, Reply(p, status),
             status = "ok" /\ p.live =>
                IF p.kind = "content"
                THEN \E o \in uploaded' \cap AtPeer' : o.id = p.env.id
                ELSE Arrived(p.env)'
      PROVE  AnswersAreTrue'
  <2>1. CASE ~ p.live
    BY <1>1, <1>9, <2>1 DEF Reply
  <2>2. CASE p.live
    <3>1. /\ pc[p.env] = IF p.kind = "content" THEN "uploading" ELSE "posting"
          /\ p.env \in Envelope
      BY <2>2 DEF LivePosts, TypeOK, Post
    <3>2. /\ answer'[p.env] = status
          /\ \A f \in Envelope \ {p.env} : answer'[f] = answer[f]
      BY <1>9, <2>2, <3>1 DEF Reply, TypeOK
    <3>3. ASSUME NEW f \in Envelope \ {p.env}
          PROVE  /\ answer'[f] # Null => pc'[f] \in {"uploading", "posting"}
                 /\ answer'[f] = "ok" /\ pc'[f] = "uploading"
                        => \E o \in uploaded' \cap AtPeer' : o.id = f.id
                 /\ answer'[f] = "ok" /\ pc'[f] = "posting" => Arrived(f)'
      BY <1>0, <1>9, <3>2 DEF AnswersAreTrue
    <3>4. /\ answer'[p.env] # Null => pc'[p.env] \in {"uploading", "posting"}
          /\ answer'[p.env] = "ok" /\ pc'[p.env] = "uploading"
                 => \E o \in uploaded' \cap AtPeer' : o.id = p.env.id
          /\ answer'[p.env] = "ok" /\ pc'[p.env] = "posting" => Arrived(p.env)'
      BY <1>9, <2>2, <3>1, <3>2
    <3> QED
      BY <3>3, <3>4 DEF AnswersAreTrue
  <2> QED
    BY <2>1, <2>2
<1>10. ASSUME NEW p \in posts, PeerStores(p)
       PROVE  AnswersAreTrue'
  <2>1. p.object \in Object /\ p.object \in uploaded /\ p.object.id = p.env.id
    BY <1>10 DEF PeerStores, PostsMatch, TypeOK
  <2>2. Status(Puttable("peer", p.object)) = "ok" => p.object \in AtPeer'
    BY <1>10, <2>1, PutFacts DEF PeerStores, Status, AtPeer, Server
  <2> QED
    BY <1>0, <1>9, <1>10, <2>1, <2>2 DEF PeerStores
<1>11. ASSUME NEW p \in posts, PeerRefuses(p)
       PROVE  AnswersAreTrue'
    BY <1>9, <1>11 DEF PeerRefuses, Status
<1>12. ASSUME NEW p \in posts, PeerRepeats(p)
       PROVE  AnswersAreTrue'
    (* The peer is free, so that the row is of an earlier admission. *)
  <2>1. p.kind = "envelope" /\ PeerFree /\ IsReference(p.env) /\ p.env \in remembered
    BY <1>12 DEF PeerRepeats, Handled, IsRepeat
  <2>2. Arrived(p.env) /\ p.env \in Envelope
    BY <2>1 DEF RememberedIsAdmitted, PeerFree, Arrived, TypeOK
  <2> QED
    BY <1>0, <1>9, <1>12, <2>1, <2>2 DEF PeerRepeats
<1>13. ASSUME NEW p \in posts, PeerQueues(p)
       PROVE  AnswersAreTrue'
  <2>1. [env |-> p.env, content |-> p.object] \in queued'
    BY <1>13 DEF PeerQueues
  <2>2. Arrived(p.env)'
    BY <2>1 DEF Arrived, Admitted
  <2> QED
    BY <1>9, <1>13, <2>2 DEF PeerQueues
<1>14. ASSUME NEW p \in posts, PeerRemembers(p) \/ Lose(p)
       PROVE  UNCHANGED <<pc, answer>>
    BY <1>14 DEF PeerRemembers, Lose
<1>15. ASSUME NEW s \in Server, NEW o \in Object,
              Lapse(s, o) \/ Upload(o) \/ ForeignUpload(o)
       PROVE  UNCHANGED <<pc, answer>>
    BY <1>15 DEF Lapse, Upload, ForeignUpload, request
<1>16. ASSUME NEW s \in Server, Prune(s)
       PROVE  UNCHANGED <<pc, answer>>
    BY <1>16 DEF Prune, request
<1>17. CASE PeerCrash \/ UNCHANGED vars
    BY <1>1, <1>17 DEF PeerCrash, vars, request
<1> QED
    BY <1>1, <1>5, <1>6, <1>7, <1>8, <1>10, <1>11, <1>12, <1>13, <1>14, <1>15, <1>16, <1>17
    DEF Next, Proceed, Handle, Server

(* What gets in was checked, and the content it was checked with stays.    *)
LEMMA QueuedStep ==
    ASSUME IInv, [Next]_vars
    PROVE  QueuedHasContent'
<1> USE DEF IInv
<1>0. AtPeer \subseteq AtPeer'
    BY PeerGrows DEF PeerKeeps
<1>1. CASE queued' \subseteq queued
    BY <1>0, <1>1 DEF QueuedHasContent, AtPeer
<1>2. ASSUME NEW p \in posts, PeerQueues(p)
      PROVE  QueuedHasContent'
  <2>1. p.object # Null => p.object \in AtPeer /\ Key(p.object) = Key(p.env)
    BY <1>2 DEF PeerQueues, HalfAdmitted
  <2>2. queued' = queued \cup {[env |-> p.env, content |-> p.object]}
    BY <1>2 DEF PeerQueues
  <2> QED
    BY <1>0, <2>1, <2>2 DEF QueuedHasContent, AtPeer
<1>3. ASSUME NEW e \in Envelope, Submit(e) \/ Proceed(e) \/ GiveUp(e)
      PROVE  queued' \subseteq queued
    BY <1>3 DEF Submit, Proceed, GiveUp, SkipTransfer, ContentGone, PostContent,
                ContentDelivered, ContentRefused, EnvelopeAnswered, mailbox
<1>4. ASSUME NEW s \in Server, NEW o \in Object,
             Lapse(s, o) \/ Upload(o) \/ ForeignUpload(o)
      PROVE  queued' \subseteq queued
    BY <1>4 DEF Lapse, Upload, ForeignUpload, mailbox
<1>5. ASSUME NEW s \in Server, Prune(s)
      PROVE  queued' \subseteq queued
    BY <1>5 DEF Prune, mailbox
<1>6. ASSUME NEW p \in posts, PeerStores(p) \/ PeerRefuses(p) \/ PeerRepeats(p)
                \/ PeerRemembers(p) \/ Lose(p)
      PROVE  queued' \subseteq queued
    BY <1>6 DEF PeerStores, PeerRefuses, PeerRepeats, PeerRemembers, Lose, mailbox
<1>7. CASE HomeCrash \/ PeerCrash \/ UNCHANGED vars
    BY <1>1, <1>7 DEF HomeCrash, PeerCrash, vars, mailbox
<1> QED
    BY <1>1, <1>2, <1>3, <1>4, <1>5, <1>6, <1>7 DEF Next, Handle, Server

(* A transfer is noted, and a sender told, on an answer "ok" only.         *)
LEMMA CacheStep ==
    ASSUME IInv, [Next]_vars
    PROVE  TransferredIsThere' /\ ProxiedIsQueued'
<1> USE DEF IInv
<1>0. /\ AtPeer \subseteq AtPeer' /\ uploaded \subseteq uploaded'
      /\ \A e \in Envelope : Arrived(e) => Arrived(e)'
    BY PeerGrows DEF PeerKeeps, Arrived, Admitted
<1>a. /\ ProxiedIsQueued <=> \A e \in told : Arrived(e)
      /\ ProxiedIsQueued' <=> \A e \in told' : Arrived(e)'
    BY DEF ProxiedIsQueued, Arrived
<1>1. CASE transfers' \subseteq transfers /\ told' \subseteq told
    BY <1>0, <1>a, <1>1 DEF TransferredIsThere, AtPeer, TypeOK
<1>2. ASSUME NEW e \in Envelope, ContentDelivered(e)
      PROVE  TransferredIsThere' /\ ProxiedIsQueued'
  <2>1. \E o \in uploaded \cap AtPeer : o.id = Key(e)[1]
    BY <1>2 DEF ContentDelivered, Success, AnswersAreTrue, Key
  <2>2. transfers' = transfers \cup {Key(e)} /\ told' = told
    BY <1>2 DEF ContentDelivered
  <2>3. TransferredIsThere'
    BY <1>0, <2>1, <2>2 DEF TransferredIsThere, AtPeer
  <2>4. ProxiedIsQueued'
    BY <1>0, <1>a, <2>2 DEF TypeOK
  <2> QED
    BY <2>3, <2>4
<1>3. ASSUME NEW e \in Envelope, EnvelopeAnswered(e)
      PROVE  TransferredIsThere' /\ ProxiedIsQueued'
  <2>1. Success(e) => Arrived(e)
    BY <1>3 DEF EnvelopeAnswered, Success, AnswersAreTrue
  <2>2. transfers' = transfers /\ told' \subseteq told \cup {f \in {e} : Success(e)}
    BY <1>3 DEF EnvelopeAnswered
  <2>3. TransferredIsThere'
    BY <1>0, <2>2 DEF TransferredIsThere, AtPeer
  <2>4. ProxiedIsQueued'
    BY <1>0, <1>a, <2>1, <2>2 DEF TypeOK
  <2> QED
    BY <2>3, <2>4
<1>4. ASSUME NEW e \in Envelope, Submit(e) \/ GiveUp(e) \/ SkipTransfer(e)
                \/ ContentGone(e) \/ PostContent(e) \/ ContentRefused(e)
      PROVE  transfers' \subseteq transfers /\ told' \subseteq told
    BY <1>4 DEF Submit, GiveUp, SkipTransfer, ContentGone, PostContent, ContentRefused
<1>5. ASSUME NEW s \in Server, NEW o \in Object,
             Lapse(s, o) \/ Upload(o) \/ ForeignUpload(o)
      PROVE  transfers' \subseteq transfers /\ told' \subseteq told
    BY <1>5 DEF Lapse, Upload, ForeignUpload, request
<1>6. ASSUME NEW s \in Server, Prune(s)
      PROVE  transfers' \subseteq transfers /\ told' \subseteq told
    BY <1>6 DEF Prune, request
<1>7. ASSUME NEW p \in posts, Handle(p) \/ Lose(p)
      PROVE  transfers' \subseteq transfers /\ told' \subseteq told
    BY <1>7 DEF Handle, PeerStores, PeerRefuses, PeerRepeats, PeerRemembers, PeerQueues, Lose
<1>8. CASE HomeCrash \/ PeerCrash \/ UNCHANGED vars
    BY <1>1, <1>8 DEF HomeCrash, PeerCrash, vars, request
<1> QED
    BY <1>1, <1>2, <1>3, <1>4, <1>5, <1>6, <1>7, <1>8
    DEF Next, Proceed, Server

-----------------------------------------------------------------------------
(* The theorems.                                                           *)

LEMMA InitInv == Init => IInv
<1> SUFFICES ASSUME Init PROVE IInv
    OBVIOUS
<1>1. TypeOK
    BY FederationAssumption DEF Init, TypeOK
<1>2. /\ HomeIsOurs /\ UploaderHasLock /\ PostsMatch
      /\ HalfAdmitted /\ RememberedIsAdmitted /\ LivePosts
    BY DEF Init, HomeIsOurs, UploaderHasLock, PostsMatch, HalfAdmitted,
           RememberedIsAdmitted, LivePosts, Server
<1>3. AnswersAreTrue
    BY FederationAssumption DEF Init, AnswersAreTrue
<1>4. QueuedHasContent /\ TransferredIsThere /\ ProxiedIsQueued
    BY DEF Init, QueuedHasContent, TransferredIsThere, ProxiedIsQueued
<1> QED
    BY <1>1, <1>2, <1>3, <1>4 DEF IInv

LEMMA NextInv == IInv /\ [Next]_vars => IInv'
<1> SUFFICES ASSUME IInv, [Next]_vars PROVE IInv'
    OBVIOUS
<1>1. TypeOK' /\ HomeIsOurs' /\ UploaderHasLock' /\ PostsMatch'
    BY TypeStep, HomeStep, LockStep, PostsStep
<1>3. HalfAdmitted' /\ RememberedIsAdmitted'
    BY HalfStep, RememberedStep
<1>2. /\ LivePosts' /\ AnswersAreTrue' /\ QueuedHasContent'
      /\ TransferredIsThere' /\ ProxiedIsQueued'
    BY LiveStep, AnswersStep, QueuedStep, CacheStep
<1> QED
    BY <1>1, <1>2, <1>3 DEF IInv

LEMMA Invariance == Spec => []IInv
BY InitInv, NextInv, PTL DEF Spec

(* Requests, posts and what the peer holds keep their types, over lost and *)
(* late answers and restarts.                                              *)
THEOREM FederationTypeCorrect == Spec => []TypeOK
<1>1. IInv => TypeOK
    BY DEF IInv
<1> QED
    BY Invariance, <1>1, PTL

(* Whoever finds a reference in a mailbox of the peer can fetch the        *)
(* content that it was checked with, until the content's deadline.         *)
THEOREM ContentStays == Spec => []QueuedHasContent
<1>1. IInv => QueuedHasContent
    BY DEF IInv
<1> QED
    BY Invariance, <1>1, PTL

(* The cache of transfers only lists a content_id whose content, as our    *)
(* clients put it, is on the peer or was there until its deadline.         *)
THEOREM CacheIsTrue == Spec => []TransferredIsThere
<1>1. IInv => TransferredIsThere
    BY DEF IInv
<1> QED
    BY Invariance, <1>1, PTL

(* A sender who is answered "proxied" can forget the delivery, but for a   *)
(* death of the peer between the replay row and the queue row of a         *)
(* reference.                                                              *)
THEOREM ProxiedArrived == Spec => []ProxiedIsQueued
<1>1. IInv => ProxiedIsQueued
    BY DEF IInv
<1> QED
    BY Invariance, <1>1, PTL

(* The lock keeps requests from uploading the same content twice at once.  *)
THEOREM UploadsExclude == Spec => []OneUploadPerKey
<1>1. IInv => OneUploadPerKey
  <2> SUFFICES ASSUME IInv,
                      NEW p \in posts, p.live, p.kind = "content",
                      NEW q \in posts, q.live, q.kind = "content"
               PROVE  p = q
    BY DEF OneUploadPerKey
  <2>1. /\ pc[p.env] = "uploading" /\ p.env \in Envelope
        /\ pc[q.env] = "uploading" /\ q.env \in Envelope
    BY DEF IInv, LivePosts, TypeOK, Post
  <2>2. p.env = q.env
    BY <2>1 DEF IInv, UploaderHasLock, HasLock
  <2> QED
    BY <2>2 DEF IInv, LivePosts
<1> QED
    BY Invariance, <1>1, PTL
=============================================================================
