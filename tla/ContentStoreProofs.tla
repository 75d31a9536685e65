------------------------- MODULE ContentStoreProofs -------------------------
(* Theorems about ContentStore, for every value of its constants.          *)
EXTENDS ContentStore, TLAPS

(* While put is under way its content_id has no row, and once its file is  *)
(* placed that file is the only one of the id; while _delete is, the row   *)
(* is gone already.  Without this the disk steps could undo RowHasItsFile. *)
CallsAreSafe ==
    /\ putting # Null =>
          /\ RowFor(putting.id) = {}
          /\ unlinking = Null
          /\ pruning = {}
    /\ placed =>
          /\ putting # Null
          /\ FileFor(putting.id) = {[id |-> putting.id, hash |-> putting.hash]}
    /\ unlinking # Null => RowFor(unlinking) = {}
    /\ pruning \subseteq rows

IInv == TypeOK /\ RowHasItsFile /\ CallsAreSafe

LEMMA InitIInv == Init => IInv
<1> SUFFICES ASSUME Init
             PROVE  IInv
    OBVIOUS
<1>1. TypeOK
  <2>1. reply.put = Null /\ reply.get = Null
    BY DEF Init, PutReply
  <2>2. now \in 0..MaxTime /\ crashes \in 0..MaxCrashes
    BY ObjectAssumption, CrashAssumption DEF Init
  <2>3. placed \in BOOLEAN
    BY DEF Init
  <2> QED  BY <2>1, <2>2, <2>3 DEF Init, TypeOK
<1> QED  BY <1>1 DEF Init, IInv, RowHasItsFile, CallsAreSafe

(* Only the reply, the clock and the crash counter change.                 *)
LEMMA ReplyKeepsIInv ==
    ASSUME IInv, TypeOK', UNCHANGED <<rows, files, putting, placed, pruning, unlinking>>
    PROVE  IInv'
  BY DEF IInv, RowHasItsFile, CallsAreSafe, RowFor, FileFor

(* Deleting a row while no put is under way.                               *)
LEMMA DeleteRowKeepsIInv ==
    ASSUME IInv, TypeOK', NEW r \in rows, DeleteRow(r), unlinking = Null,
           putting = Null, pruning' \subseteq pruning \ {r},
           UNCHANGED <<files, putting, placed>>
    PROVE  IInv'
<1>1. rows' = rows \ {r} /\ unlinking' = r.id
    BY DEF DeleteRow
<1>2. \A s \in rows' : s.id # r.id
    BY <1>1 DEF IInv, RowHasItsFile
<1>3. RowHasItsFile'
    BY <1>1 DEF IInv, RowHasItsFile, FileFor
<1>4. CallsAreSafe'
    BY <1>1, <1>2 DEF IInv, CallsAreSafe, RowFor
<1> QED  BY <1>3, <1>4 DEF IInv

LEMMA NextIInv == IInv /\ [Next]_vars => IInv'
<1> SUFFICES ASSUME IInv, [Next]_vars
             PROVE  IInv'
    OBVIOUS
<1> USE DEF diskVars, callVars, history
<1>0. TypeOK
    BY DEF IInv
<1>1. ASSUME NEW o \in Object, PutExpired(o) \/ PutKnown(o)
      PROVE  IInv'
  <2>1. TypeOK' /\ UNCHANGED <<rows, files, putting, placed, pruning, unlinking>>
    BY <1>0, <1>1 DEF PutExpired, PutKnown, PutReply, TypeOK
  <2> QED  BY <2>1, ReplyKeepsIInv
<1>2. ASSUME NEW o \in Object, PutBegin(o)
      PROVE  IInv'
  <2>1. TypeOK'
    BY <1>0, <1>2 DEF PutBegin, TypeOK
  <2>2. ~ placed
    BY <1>2 DEF PutBegin, Idle, IInv, CallsAreSafe
  <2> QED  BY <1>2, <2>1, <2>2 DEF PutBegin, Idle, IInv, RowHasItsFile,
              CallsAreSafe, RowFor, FileFor
<1>3. CASE PutPlaceFile
  <2> DEFINE f == [id |-> putting.id, hash |-> putting.hash]
  <2>1. /\ putting # Null /\ placed'
        /\ files' = (files \ FileFor(putting.id)) \cup {f}
        /\ UNCHANGED <<now, history, rows, putting, pruning, unlinking, crashes>>
    BY <1>3 DEF PutPlaceFile
  <2>2. putting \in Object /\ f \in [id : ContentId, hash : Hash]
    BY <1>0, <2>1, ObjectAssumption DEF TypeOK
  <2>3. TypeOK'
    BY <1>0, <1>3, <2>1, <2>2 DEF TypeOK, PutPlaceFile
  <2>4. FileFor(putting.id)' = {f}
    BY <2>1 DEF FileFor
  <2>5. \A r \in rows : r.id # putting.id
    BY <2>1 DEF IInv, CallsAreSafe, RowFor
  <2>6. \A r \in rows : FileFor(r.id)' = FileFor(r.id)
    BY <2>1, <2>5 DEF FileFor
  <2> QED  BY <2>1, <2>3, <2>4, <2>6 DEF IInv, RowHasItsFile, CallsAreSafe, RowFor
<1>4. CASE PutCommit
  <2>1. /\ putting \in Object /\ rows' = rows \cup {putting} /\ putting' = Null
        /\ FileFor(putting.id) = {[id |-> putting.id, hash |-> putting.hash]}
        /\ RowFor(putting.id) = {} /\ unlinking = Null /\ pruning = {}
        /\ ~ placed' /\ UNCHANGED <<files, pruning, unlinking>>
    BY <1>0, <1>4 DEF PutCommit, TypeOK, IInv, CallsAreSafe
  <2>2. TypeOK'
    BY <1>0, <1>4, <2>1 DEF TypeOK, PutCommit, PutReply, AcceptedAnew
  <2>3. \A r \in rows : r.id # putting.id
    BY <2>1 DEF RowFor
  <2>4. RowHasItsFile'
    BY <2>1, <2>3 DEF IInv, RowHasItsFile, FileFor
  <2>5. CallsAreSafe'
    BY <2>1 DEF CallsAreSafe
  <2> QED  BY <2>2, <2>4, <2>5 DEF IInv
<1>5. ASSUME NEW id \in ContentId, GetMissing(id) \/ GetFound(id)
      PROVE  IInv'
  <2>1. TypeOK' /\ UNCHANGED <<rows, files, putting, placed, pruning, unlinking>>
    BY <1>0, <1>5 DEF GetMissing, GetFound, GetReply, TypeOK
  <2> QED  BY <2>1, ReplyKeepsIInv
<1>6. ASSUME NEW id \in ContentId, GetExpired(id)
      PROVE  IInv'
  <2>1. PICK r \in rows : DeleteRow(r) /\ r.id = id
    BY <1>6 DEF GetExpired, RowFor
  <2>2. /\ unlinking = Null /\ putting = Null /\ pruning = {}
        /\ UNCHANGED <<now, accepted, files, putting, placed, pruning, crashes>>
        /\ reply' = GetReply(id, Null)
    BY <1>6 DEF GetExpired, Idle
  <2>3. TypeOK'
    BY <1>0, <2>1, <2>2 DEF TypeOK, DeleteRow, GetReply
  <2> QED  BY <2>1, <2>2, <2>3, DeleteRowKeepsIInv
<1>7. CASE PruneBegin
  <2>1. TypeOK'
    BY <1>0, <1>7 DEF PruneBegin, TypeOK
  <2> QED  BY <1>7, <2>1 DEF PruneBegin, Idle, IInv, RowHasItsFile,
              CallsAreSafe, RowFor, FileFor
<1>8. ASSUME NEW r \in Object, PruneKeep(r)
      PROVE  IInv'
  <2>1. TypeOK'
    BY <1>0, <1>8 DEF PruneKeep, TypeOK
  <2> QED  BY <1>8, <2>1 DEF PruneKeep, IInv, RowHasItsFile, CallsAreSafe,
              RowFor, FileFor
<1>9. ASSUME NEW r \in Object, PruneDrop(r)
      PROVE  IInv'
  <2>1. r \in pruning /\ r \in rows /\ putting = Null
    BY <1>9 DEF PruneDrop, IInv, CallsAreSafe
  <2>2. /\ DeleteRow(r) /\ unlinking = Null /\ pruning' = pruning \ {r}
        /\ UNCHANGED <<now, history, files, putting, placed, crashes>>
    BY <1>9 DEF PruneDrop
  <2>3. TypeOK'
    BY <1>0, <2>1, <2>2, ObjectAssumption DEF TypeOK, DeleteRow
  <2> QED  BY <2>1, <2>2, <2>3, DeleteRowKeepsIInv
<1>10. CASE Unlink
  <2>1. /\ unlinking # Null /\ unlinking' = Null
        /\ files' = files \ FileFor(unlinking)
        /\ UNCHANGED <<now, history, rows, putting, placed, pruning, crashes>>
    BY <1>10 DEF Unlink
  <2>2. \A r \in rows : r.id # unlinking
    BY <2>1 DEF IInv, CallsAreSafe, RowFor
  <2>3. \A r \in rows : FileFor(r.id)' = FileFor(r.id)
    BY <2>1, <2>2 DEF FileFor
  <2>4. putting = Null /\ ~ placed
    BY <2>1 DEF IInv, CallsAreSafe
  <2>5. TypeOK'
    BY <1>0, <2>1 DEF TypeOK
  <2> QED  BY <2>1, <2>3, <2>4, <2>5 DEF IInv, RowHasItsFile, CallsAreSafe
<1>11. CASE Crash
  <2>1. TypeOK'
    <3>1. crashes' \in 0..MaxCrashes
      BY <1>0, <1>11, CrashAssumption DEF Crash, TypeOK
    <3> QED  BY <1>0, <1>11, <3>1 DEF Crash, TypeOK
  <2> QED  BY <1>11, <2>1 DEF Crash, IInv, RowHasItsFile, CallsAreSafe,
              RowFor, FileFor
<1>12. CASE Tick
  <2>1. TypeOK' /\ UNCHANGED <<rows, files, putting, placed, pruning, unlinking>>
    BY <1>0, <1>12, ObjectAssumption DEF Tick, TypeOK
  <2> QED  BY <2>1, ReplyKeepsIInv
<1>13. CASE UNCHANGED vars
  <2>1. TypeOK' /\ UNCHANGED <<rows, files, putting, placed, pruning, unlinking>>
    BY <1>0, <1>13 DEF vars, TypeOK
  <2> QED  BY <2>1, ReplyKeepsIInv
<1> QED
    BY <1>1, <1>2, <1>3, <1>4, <1>5, <1>6, <1>7, <1>8, <1>9, <1>10, <1>11,
       <1>12, <1>13 DEF Next, Put, Get

LEMMA InvariantHolds == Spec => []IInv
  BY InitIInv, NextIInv, PTL DEF Spec

(* Rows, files and what put, get and prune_expired have under way keep     *)
(* their types: a row is deleted before its file, never after it.          *)
THEOREM StoreTypeCorrect == Spec => []TypeOK
<1>1. IInv => TypeOK
    BY DEF IInv
<1> QED  BY <1>1, InvariantHolds, PTL

(* Every committed row has its own file in place, wherever a crash falls.  *)
THEOREM FileBeforeRow == Spec => []RowHasItsFile
<1>1. IInv => RowHasItsFile
    BY DEF IInv
<1> QED  BY <1>1, InvariantHolds, PTL

(* Until the process dies, a file without a row is that of the object put  *)
(* has placed and not committed, or the one _delete is about to unlink.    *)
HasWork(f) ==
    \/ RowFor(f.id) # {}
    \/ placed /\ f.id = putting.id
    \/ f.id = unlinking

OrphansAreInWork == crashes = 0 => \A f \in files : HasWork(f)

LEMMA NextOrphans ==
    IInv /\ OrphansAreInWork /\ [Next]_vars => OrphansAreInWork'
<1> SUFFICES ASSUME IInv, OrphansAreInWork, [Next]_vars, crashes' = 0,
                    NEW f \in files'
             PROVE  HasWork(f)'
    BY DEF OrphansAreInWork
<1> USE DEF diskVars, callVars, history
<1>0. TypeOK /\ crashes \in Nat
    BY CrashAssumption DEF IInv, TypeOK
<1>1. ~ Crash
    BY <1>0 DEF Crash
<1>2. crashes = 0
    BY <1>0, <1>1 DEF Next, Put, Get, PutExpired, PutKnown, PutBegin, PutPlaceFile,
       PutCommit, GetMissing, GetFound, GetExpired, PruneBegin, PruneKeep, PruneDrop,
       Unlink, Tick, vars
<1>3. ASSUME UNCHANGED <<rows, files, putting, placed, unlinking>>
      PROVE  HasWork(f)'
    BY <1>2, <1>3 DEF OrphansAreInWork, HasWork, RowFor
<1>4. ASSUME NEW r \in rows, DeleteRow(r), unlinking = Null, putting = Null,
             UNCHANGED <<files, putting, placed>>
      PROVE  HasWork(f)'
  <2>1. f \in files /\ f.id # Null /\ ~ placed
    BY <1>0, <1>4, ObjectAssumption DEF IInv, TypeOK, CallsAreSafe
  <2>2. PICK s \in rows : s.id = f.id
    BY <1>2, <1>4, <2>1 DEF OrphansAreInWork, HasWork, RowFor
  <2>3. s = r \/ s \in rows'
    BY <1>4 DEF DeleteRow
  <2> QED  BY <1>4, <2>2, <2>3 DEF DeleteRow, HasWork, RowFor
<1>5. ASSUME NEW o \in Object, PutBegin(o)
      PROVE  HasWork(f)'
  <2>1. ~ placed /\ UNCHANGED <<rows, files, placed, unlinking>>
    BY <1>5 DEF PutBegin, Idle, IInv, CallsAreSafe
  <2> QED  BY <1>2, <2>1 DEF OrphansAreInWork, HasWork, RowFor
<1>6. CASE PutPlaceFile
  <2>1. f \in files \/ f.id = putting.id
    BY <1>6 DEF PutPlaceFile
  <2>2. placed' /\ UNCHANGED <<rows, putting, unlinking>> /\ ~ placed
    BY <1>6 DEF PutPlaceFile
  <2> QED  BY <1>2, <2>1, <2>2 DEF OrphansAreInWork, HasWork, RowFor
<1>7. CASE PutCommit
  <2>1. rows' = rows \cup {putting} /\ UNCHANGED <<files, unlinking>>
    BY <1>7 DEF PutCommit
  <2>2. f.id = putting.id => RowFor(f.id)' # {}
    BY <2>1 DEF RowFor
  <2>3. RowFor(f.id) # {} => RowFor(f.id)' # {}
    BY <2>1 DEF RowFor
  <2> QED  BY <1>2, <2>1, <2>2, <2>3 DEF OrphansAreInWork, HasWork
<1>8. ASSUME NEW id \in ContentId, GetExpired(id)
      PROVE  HasWork(f)'
  <2>1. PICK r \in rows : DeleteRow(r)
    BY <1>8 DEF GetExpired, RowFor
  <2> QED  BY <1>4, <1>8, <2>1 DEF GetExpired, Idle
<1>9. ASSUME NEW r \in Object, PruneDrop(r)
      PROVE  HasWork(f)'
  <2>1. r \in rows /\ putting = Null
    BY <1>9 DEF PruneDrop, IInv, CallsAreSafe
  <2> QED  BY <1>4, <1>9, <2>1 DEF PruneDrop
<1>10. CASE Unlink
  <2>1. f \in files /\ f.id # unlinking
    BY <1>10 DEF Unlink, FileFor
  <2> QED  BY <1>2, <1>10, <2>1 DEF Unlink, OrphansAreInWork, HasWork, RowFor
<1>11. CASE \/ \E o \in Object : PutExpired(o) \/ PutKnown(o)
            \/ \E id \in ContentId : GetMissing(id) \/ GetFound(id)
            \/ PruneBegin
            \/ \E r \in Object : PruneKeep(r)
            \/ Tick
            \/ UNCHANGED vars
  <2>1. UNCHANGED <<rows, files, putting, placed, unlinking>>
    BY <1>11 DEF PutExpired, PutKnown, GetMissing, GetFound, PruneBegin, PruneKeep,
       Tick, vars
  <2> QED  BY <1>3, <2>1
<1> QED
    BY <1>1, <1>5, <1>6, <1>7, <1>8, <1>9, <1>10, <1>11 DEF Next, Put, Get

(* As long as the process has not died, no call leaves a file behind whose *)
(* row is gone or was never committed.                                     *)
THEOREM NoFileIsOrphaned == Spec => []NoOrphanFiles
<1>1. Init => OrphansAreInWork
    BY DEF Init, OrphansAreInWork
<1>2. IInv /\ OrphansAreInWork => NoOrphanFiles
  <2> SUFFICES ASSUME IInv, OrphansAreInWork, Idle, crashes = 0, NEW f \in files
               PROVE  RowFor(f.id) # {}
      BY DEF NoOrphanFiles
  <2>1. f.id # Null /\ ~ placed
      BY ObjectAssumption DEF IInv, TypeOK, CallsAreSafe, Idle
  <2> QED  BY <2>1 DEF OrphansAreInWork, HasWork, Idle
<1> QED  BY <1>1, <1>2, InvariantHolds, NextOrphans, PTL DEF Spec

(* Every row was accepted, so that a row which goes leaves the accepted    *)
(* copy by whose deadline it went.                                         *)
RowsAreAccepted == rows \subseteq accepted

LEMMA NextHeld ==
    IInv /\ RowsAreAccepted /\ AcceptedIsHeld /\ [Next]_vars
        => RowsAreAccepted' /\ AcceptedIsHeld'
<1> SUFFICES ASSUME IInv, RowsAreAccepted, AcceptedIsHeld, [Next]_vars
             PROVE  RowsAreAccepted' /\ AcceptedIsHeld'
    OBVIOUS
<1> USE DEF diskVars, callVars, history
<1>0. TypeOK
    BY DEF IInv
<1>1. CASE UNCHANGED <<now, rows, accepted>>
    BY <1>1 DEF RowsAreAccepted, AcceptedIsHeld
<1>2. ASSUME NEW o \in Object, PutKnown(o)
      PROVE  RowsAreAccepted' /\ AcceptedIsHeld'
  <2>1. PICK r \in rows : /\ r.id = o.id
                          /\ accepted' = IF r.hash = o.hash THEN accepted \cup {o} ELSE accepted
    BY <1>2 DEF PutKnown, RowFor
  <2>2. UNCHANGED <<now, rows>>
    BY <1>2 DEF PutKnown
  <2> QED  BY <2>1, <2>2 DEF RowsAreAccepted, AcceptedIsHeld
<1>3. CASE PutCommit
  <2>1. /\ rows' = rows \cup {putting} /\ now' = now
        /\ accepted' = {p \in accepted : p.id # putting.id} \cup {putting}
        /\ RowFor(putting.id) = {}
    BY <1>3 DEF PutCommit, AcceptedAnew, IInv, CallsAreSafe
  <2>2. RowsAreAccepted'
    BY <2>1 DEF RowsAreAccepted, RowFor
  <2>3. ASSUME NEW o \in accepted, o.id # putting.id
        PROVE  \/ \E r \in rows' : r.id = o.id /\ r.hash = o.hash
               \/ \E p \in accepted' : p.id = o.id /\ p.hash = o.hash /\ Lapsed(p, now')
    BY <2>1, <2>3 DEF AcceptedIsHeld
  <2> QED  BY <2>1, <2>2, <2>3 DEF AcceptedIsHeld
<1>4. ASSUME NEW r \in rows, Lapsed(r, now), DeleteRow(r), UNCHANGED <<now, accepted>>
      PROVE  RowsAreAccepted' /\ AcceptedIsHeld'
  <2>1. r \in accepted /\ rows' = rows \ {r}
    BY <1>4 DEF RowsAreAccepted, DeleteRow
  <2> QED  BY <1>4, <2>1 DEF RowsAreAccepted, AcceptedIsHeld
<1>5. ASSUME NEW id \in ContentId, GetExpired(id)
      PROVE  RowsAreAccepted' /\ AcceptedIsHeld'
    BY <1>4, <1>5 DEF GetExpired, RowFor
<1>6. ASSUME NEW r \in Object, PruneDrop(r)
      PROVE  RowsAreAccepted' /\ AcceptedIsHeld'
    BY <1>4, <1>6 DEF PruneDrop, IInv, CallsAreSafe
<1>7. CASE Tick
  <2>1. \A p \in Object : Lapsed(p, now) => Lapsed(p, now')
    BY <1>0, <1>7, ObjectAssumption DEF Tick, Lapsed, TypeOK
  <2> QED  BY <1>0, <1>7, <2>1 DEF Tick, RowsAreAccepted, AcceptedIsHeld, TypeOK
<1>8. CASE \/ \E o \in Object : PutExpired(o) \/ PutBegin(o)
           \/ PutPlaceFile
           \/ \E id \in ContentId : GetMissing(id) \/ GetFound(id)
           \/ PruneBegin
           \/ \E r \in Object : PruneKeep(r)
           \/ Unlink
           \/ Crash
           \/ UNCHANGED vars
  <2>1. UNCHANGED <<now, rows, accepted>>
    BY <1>8 DEF PutExpired, PutBegin, PutPlaceFile, GetMissing, GetFound, PruneBegin,
       PruneKeep, Unlink, Crash, vars
  <2> QED  BY <1>1, <2>1
<1> QED
    BY <1>2, <1>3, <1>5, <1>6, <1>7, <1>8 DEF Next, Put, Get

(* What a server has accepted it holds until the earliest deadline stated  *)
(* for it, whoever else puts, gets and prunes, and wherever it crashes.    *)
THEOREM AcceptedStays == Spec => []AcceptedIsHeld
<1>1. Init => RowsAreAccepted /\ AcceptedIsHeld
    BY DEF Init, RowsAreAccepted, AcceptedIsHeld
<1> QED  BY <1>1, InvariantHolds, NextHeld, PTL DEF Spec

-----------------------------------------------------------------------------
(* The refinement: commits and row deletions are steps of the map, gets    *)
(* and refused puts too, everything else stutters.                         *)

USE DEF Lapsed, Map!Lapsed, PutReply, Map!PutReply, GetReply, Map!GetReply

LEMMA InitRefines == Init => Map!Init
  BY DEF Init, Map!Init, PutReply

(* What get reads back is the row itself.                                  *)
LEMMA ReadBackIsRow ==
    ASSUME IInv, NEW id \in ContentId
    PROVE  ReadBack(id) = RowFor(id)
<1>1. \A r \in rows : /\ FileFor(r.id) = {[id |-> r.id, hash |-> r.hash]}
                      /\ r = [id |-> r.id, hash |-> r.hash, expires |-> r.expires]
    BY ObjectAssumption DEF IInv, TypeOK, RowHasItsFile
<1>2. \A r \in RowFor(id) : /\ r \in rows /\ r.id = id
                            /\ FileFor(id) = {[id |-> id, hash |-> r.hash]}
                            /\ r = [id |-> id, hash |-> r.hash, expires |-> r.expires]
    BY <1>1 DEF RowFor
<1>3. \A r, s \in RowFor(id) : r = s
    BY DEF RowFor, IInv, RowHasItsFile
<1>4. ASSUME NEW o \in ReadBack(id)
      PROVE  o \in RowFor(id)
  <2>1. PICK f \in FileFor(id), r \in RowFor(id) :
            o = [id |-> id, hash |-> f.hash, expires |-> r.expires]
    BY <1>4 DEF ReadBack
  <2>2. f.hash = r.hash
    BY <1>2, <2>1
  <2> QED  BY <1>2, <2>1, <2>2
<1>5. ASSUME NEW r \in RowFor(id)
      PROVE  r \in ReadBack(id)
  <2>1. [id |-> id, hash |-> r.hash] \in FileFor(id)
    BY <1>2
  <2> DEFINE f == [id |-> id, hash |-> r.hash]
  <2>2. f.hash = r.hash
    OBVIOUS
  <2> QED  BY <1>2, <2>1, <2>2 DEF ReadBack
<1> QED  BY <1>4, <1>5

LEMMA NextRefines ==
    IInv /\ [Next]_vars => [Map!Next]_<<now, rows, reply>>
<1> SUFFICES ASSUME IInv, Next
             PROVE  Map!Next \/ UNCHANGED <<now, rows, reply>>
    BY DEF vars
<1> USE DEF diskVars, callVars, history
<1>1. ASSUME NEW o \in Object, Put(o)
      PROVE  Map!Put(o) \/ UNCHANGED <<now, rows, reply>>
  <2>1. CASE PutExpired(o)
    BY <2>1 DEF PutExpired, Map!Put
  <2>2. CASE PutKnown(o)
    BY <2>2 DEF PutKnown, Map!Put, Map!Held, RowFor
  <2>3. CASE PutBegin(o)
    BY <2>3 DEF PutBegin
  <2> QED  BY <1>1, <2>1, <2>2, <2>3 DEF Put
<1>2. CASE PutPlaceFile
    BY <1>2 DEF PutPlaceFile
<1>3. CASE PutCommit
  <2>1. putting \in Object /\ RowFor(putting.id) = {}
    BY <1>3 DEF PutCommit, IInv, TypeOK, CallsAreSafe
  <2>2. Map!Put(putting)
    BY <1>3, <2>1 DEF PutCommit, Map!Put, Map!Held, RowFor
  <2> QED  BY <2>1, <2>2 DEF Map!Next
<1>4. ASSUME NEW id \in ContentId, GetMissing(id)
      PROVE  Map!Refuse(id)
  <2>1. RowFor(id) = {}
    BY <1>4, ReadBackIsRow DEF GetMissing
  <2> QED  BY <1>4, <2>1 DEF GetMissing, Map!Refuse, Map!Held, RowFor
<1>5. ASSUME NEW id \in ContentId, GetFound(id)
      PROVE  \E o \in Object : Map!Serve(o)
  <2>1. PICK o \in RowFor(id) : reply' = GetReply(id, o)
    BY <1>5, ReadBackIsRow DEF GetFound
  <2>2. o \in rows /\ o \in Object /\ o.id = id /\ ~ Lapsed(o, now)
    BY <1>5, <2>1 DEF GetFound, RowFor, IInv, TypeOK
  <2> QED  BY <1>5, <2>1, <2>2 DEF GetFound, Map!Serve
<1>6. ASSUME NEW id \in ContentId, GetExpired(id)
      PROVE  Map!Refuse(id)
  <2>1. PICK r \in rows : r.id = id /\ Lapsed(r, now) /\ DeleteRow(r)
    BY <1>6 DEF GetExpired, RowFor
  <2>2. Map!Held(id) = {r}
    BY <2>1 DEF Map!Held, IInv, RowHasItsFile
  <2> QED  BY <1>6, <2>1, <2>2 DEF GetExpired, DeleteRow, Map!Refuse
<1>7. CASE PruneBegin
    BY <1>7 DEF PruneBegin
<1>8. ASSUME NEW r \in Object, PruneKeep(r)
      PROVE  UNCHANGED <<now, rows, reply>>
    BY <1>8 DEF PruneKeep
<1>9. ASSUME NEW r \in Object, PruneDrop(r)
      PROVE  Map!Forget(r)
    BY <1>9 DEF PruneDrop, DeleteRow, Map!Forget, IInv, CallsAreSafe
<1>10. CASE Unlink
    BY <1>10 DEF Unlink
<1>11. CASE Crash
    BY <1>11 DEF Crash
<1>12. CASE Tick
    BY <1>12 DEF Tick, Map!Tick, Map!Next
<1> QED
    BY <1>1, <1>2, <1>3, <1>4, <1>5, <1>6, <1>7, <1>8, <1>9, <1>10, <1>11,
       <1>12 DEF Next, Get, Map!Next

(* ContentStore implements ContentSpec.                                    *)
THEOREM StoreImplementsMap == Spec => ImplementsMap
  BY InitRefines, NextRefines, InvariantHolds, PTL DEF Spec, ImplementsMap, Map!Spec

=============================================================================
