--------------------------- MODULE ContactsProofs ---------------------------
(***************************************************************************)
(* Proofs about Contacts, for any routes, keys, senders and bounds, and at *)
(* most one command that writes contacts at a time.                        *)
(***************************************************************************)
EXTENDS Contacts, TLAPS

OneWriter == \A p, q \in Writer : p = q

WriterStep == {"put", "load", "list", "pin", "undo", "unlist"}

(* What the index pins a route to is vouched for, and                      *)
IndexIsVouched ==
    index # Torn => \A r \in Route : vouched[r] # {} => index[r] \in vouched[r]

(* so is what a command has looked up there.                               *)
PinIsKnown(c) ==
    c.at \in {"file", "ask", "use"} /\ c.known # {} => c.key \in c.known

Opened(c) == (c.at = "put" /\ c.half) \/ c.at = "load"

Loaded(c) == c.at \in {"list", "pin", "undo", "unlist"}

(* From the first write of a contact on, old and new key are vouched for.  *)
BothAreVouched(c) ==
    Opened(c) \/ Loaded(c) =>
        vouched[c.route] = IF c.known = {} THEN {} ELSE c.known \cup {c.key}

(* The index still pins the route to an old key, and so does what the      *)
(* command has read; on the other routes that is all still vouched for.    *)
OldIndexIsKnown(c) ==
    /\ Opened(c) /\ index # Torn /\ c.known # {} => index[c.route] \in c.known
    /\ Loaded(c) =>
          /\ c.known # {} => c.base[c.route] \in c.known
          /\ \A s \in Route \ {c.route} : vouched[s] # {} => c.base[s] \in vouched[s]
    /\ c.at = "pin" => index = [c.base EXCEPT ![c.route] = c.key]

(* A send never writes, and a command that writes has a key to write.      *)
CommandOK(p, c) ==
    /\ c.op # "send" => p \in Writer
    /\ c.at \in {"index", "file", "ask"} => ~ c.half
    /\ PinIsKnown(c)
    /\ c.at \in WriterStep =>
          /\ p \in Writer
          /\ c.key \in Key
          /\ BothAreVouched(c)
          /\ OldIndexIsKnown(c)

IInv ==
    /\ TypeOK
    /\ IndexIsVouched
    /\ \A p \in Proc : cmd[p] # Null => CommandOK(p, cmd[p])

-----------------------------------------------------------------------------
(* Types.                                                                  *)

LEMMA GotoType ==
    ASSUME TypeOK, NEW p \in Proc, NEW c \in Command \cup {Null}, Goto(p, c)
    PROVE  /\ cmd' \in [Proc -> Command \cup {Null}]
           /\ cmd'[p] = c
           /\ \A q \in Proc : q # p => cmd'[q] = cmd[q]
  BY DEF Goto, TypeOK

LEMMA AtType ==
    ASSUME TypeOK, NEW p \in Proc, cmd[p] # Null
    PROVE  /\ cmd[p] \in Command
           /\ cmd[p].route \in Route
           /\ cmd[p].key \in Pin
           /\ cmd[p].known \in SUBSET Key
           /\ cmd[p].base \in [Route -> Pin]
           /\ cmd[p].was \in Pin \cup {Torn}
           /\ cmd[p].half \in BOOLEAN
  BY DEF TypeOK, Command

LEMMA InitIInv == Init => IInv
<1> SUFFICES ASSUME Init PROVE IInv
  OBVIOUS
<1> USE DEF Init
<1>1. TypeOK
  BY ContactsAssumption DEF TypeOK, None, Pin
<1>2. IndexIsVouched
  BY DEF IndexIsVouched
<1> QED  BY <1>1, <1>2 DEF IInv

(* A command that writes is that of a writer, and has its key.             *)
LEMMA WriterHasKey ==
    ASSUME IInv, NEW p \in Proc, cmd[p] # Null, cmd[p].at \in WriterStep
    PROVE  p \in Writer /\ cmd[p].key \in Key
  BY DEF IInv, CommandOK

LEMMA NextTypeOK == IInv /\ [Next]_vars => TypeOK'
<1> SUFFICES ASSUME IInv, [Next]_vars PROVE TypeOK'
  OBVIOUS
<1>0. TypeOK
  BY DEF IInv
<1> USE <1>0
<1> USE DEF history, bounds
<1>1. ASSUME NEW r \in Route, NEW p \in Sender, StartSend(p, r) PROVE TypeOK'
  <2>1. Begin("send", "index", r, Null) \in Command
    BY DEF Begin, Command, Pin, None
  <2> QED  BY <1>1, <2>1, GotoType DEF StartSend, TypeOK, Proc
<1>2. ASSUME NEW r \in Route, NEW p \in Writer, NEW k \in KeysAt[r] \cup {Null}, StartDiscover(p, r, k)
      PROVE TypeOK'
  <2>1. Begin("discover", "index", r, k) \in Command
    BY DEF Begin, Command, Pin, None, Key
  <2> QED  BY <1>2, <2>1, GotoType DEF StartDiscover, TypeOK, Proc
<1>3. ASSUME NEW r \in Route, NEW p \in Writer, NEW k \in KeysAt[r], StartImport(p, r, k)
      PROVE TypeOK'
  <2>1. Begin("import", "put", r, k) \in Command
    BY DEF Begin, Command, Pin, None, Key
  <2> QED  BY <1>3, <2>1, GotoType DEF StartImport, TypeOK, Proc
<1>4. ASSUME NEW p \in Proc, LookUp(p) PROVE TypeOK'
  <2>1. cmd[p] \in Command /\ index \in [Route -> Pin] \cup {Torn}
    BY <1>4, AtType DEF LookUp, At, TypeOK
  <2> DEFINE c == [cmd[p] EXCEPT !.known = vouched[cmd[p].route]]
  <2>2. /\ c \in Command
        /\ [c EXCEPT !.at = "ask"] \in Command
        /\ \A pin \in Pin : [c EXCEPT !.at = "file", !.key = pin] \in Command
    BY <2>1 DEF Command, TypeOK
  <2>3. Pinned(c) \subseteq Pin
    <3>1. c.route \in Route
      BY <2>2 DEF Command
    <3>2. CASE index = Torn
      BY <3>2 DEF Pinned
    <3>3. CASE index \in [Route -> Pin]
      <4> HIDE DEF c
      <4> QED  BY <3>1, <3>3 DEF Pinned
    <3> QED  BY <2>1, <3>2, <3>3
  <2>4. cmd' \in [Proc -> Command \cup {Null}]
    BY <1>4, <2>2, <2>3, GotoType DEF LookUp, End
  <2> QED  BY <1>4, <2>4 DEF LookUp, TypeOK
<1>5. ASSUME NEW p \in Proc, ReadContact(p) PROVE TypeOK'
  <2>1. [cmd[p] EXCEPT !.at = "ask"] \in Command
    BY <1>5, AtType DEF ReadContact, At, Command
  <2> QED  BY <1>5, <2>1, GotoType DEF ReadContact, Step, End, TypeOK
<1>6. ASSUME NEW p \in Proc, Discovered(p) PROVE TypeOK'
  <2>1. cmd[p] \in Command
    BY <1>6, AtType DEF Discovered, At
  <2>2. [cmd[p] EXCEPT !.at = "put"] \in Command
    BY <2>1 DEF Command
  <2>3. ASSUME NEW k \in KeysAt[cmd[p].route]
        PROVE  [cmd[p] EXCEPT !.at = "use", !.key = k] \in Command
    <3>1. cmd[p].route \in Route
      BY <2>1 DEF Command
    <3>2. k \in Pin
      BY <3>1 DEF Pin, Key
    <3> QED  BY <2>1, <3>2 DEF Command
  <2> QED  BY <1>6, <2>2, <2>3, GotoType DEF Discovered, Step, End, TypeOK
<1>7. ASSUME NEW p \in Proc, SendMessage(p) PROVE TypeOK'
  BY <1>7, GotoType DEF SendMessage, End, TypeOK
<1>8. ASSUME NEW p \in Proc, PutContact(p) PROVE TypeOK'
  <2>1. cmd[p] \in Command
    BY <1>8, AtType DEF PutContact, At
  <2>2. /\ [cmd[p] EXCEPT !.half = TRUE, !.was = contact[cmd[p].route],
                          !.known = vouched[cmd[p].route]] \in Command
        /\ [cmd[p] EXCEPT !.at = "load", !.half = FALSE] \in Command
    BY <2>1 DEF Command, TypeOK
  <2> QED
    <3>1. CASE ~ cmd[p].half
      <4>1. cmd[p].route \in Route /\ cmd[p].key \in Key
        BY <1>8, <2>1, WriterHasKey DEF PutContact, At, Command, WriterStep
      <4>2. /\ contact' = [contact EXCEPT ![cmd[p].route] = Torn]
            /\ vouched' = [vouched EXCEPT ![cmd[p].route] =
                              IF @ = {} THEN @ ELSE @ \cup {cmd[p].key}]
        BY <1>8, <3>1 DEF PutContact
      <4>3. cmd' \in [Proc -> Command \cup {Null}]
        BY <1>8, <3>1, <2>2, GotoType DEF PutContact
      <4> QED  BY <1>8, <4>1, <4>2, <4>3 DEF PutContact, TypeOK
    <3>2. CASE cmd[p].half
      <4>1. cmd[p].route \in Route /\ cmd[p].key \in Pin
        BY <2>1 DEF Command
      <4>2. contact' = [contact EXCEPT ![cmd[p].route] = cmd[p].key]
        BY <1>8, <3>2 DEF PutContact, NewContact
      <4>3. cmd' \in [Proc -> Command \cup {Null}]
        BY <1>8, <3>2, <2>2, GotoType DEF PutContact
      <4> QED  BY <1>8, <3>2, <4>1, <4>2, <4>3 DEF PutContact, TypeOK
    <3> QED  BY <3>1, <3>2
<1>9. ASSUME NEW p \in Proc, LoadIndex(p) PROVE TypeOK'
  <2>1. index # Torn => [cmd[p] EXCEPT !.at = "list", !.base = index] \in Command
    BY <1>9, AtType DEF LoadIndex, At, Command, TypeOK
  <2> QED  BY <1>9, <2>1, GotoType DEF LoadIndex, End, TypeOK
<1>10. ASSUME NEW p \in Proc, SaveIndex(p) PROVE TypeOK'
  <2>1. cmd[p] \in Command
    BY <1>10, AtType DEF SaveIndex, At
  <2>2. /\ [cmd[p] EXCEPT !.half = TRUE] \in Command
        /\ [cmd[p] EXCEPT !.at = "pin", !.half = FALSE] \in Command
        /\ [cmd[p].base EXCEPT ![cmd[p].route] = cmd[p].key] \in [Route -> Pin]
    BY <2>1 DEF Command
  <2>3. CASE ~ cmd[p].half
    BY <1>10, <2>2, <2>3, GotoType DEF SaveIndex, Half, TypeOK
  <2>4. CASE cmd[p].half
    BY <1>10, <2>2, <2>4, GotoType DEF SaveIndex, TypeOK
  <2> QED  BY <2>3, <2>4
<1>11. ASSUME NEW p \in Proc, ImportPin(p) PROVE TypeOK'
  <2>1. cmd[p].key \in Key
    BY <1>11, WriterHasKey DEF ImportPin, At, WriterStep
  <2> QED  BY <1>11, <2>1, AtType, GotoType DEF ImportPin, At, End, TypeOK
<1>12. ASSUME NEW p \in Writer, ImportPinFails(p) PROVE TypeOK'
  <2>1. [cmd[p] EXCEPT !.at = "undo"] \in Command
    BY <1>12, AtType DEF ImportPinFails, At, Command, Proc
  <2> QED  BY <1>12, <2>1, GotoType, ContactsAssumption DEF ImportPinFails, Step, TypeOK, Proc
<1>13. ASSUME NEW p \in Proc, RestoreContact(p) PROVE TypeOK'
  <2>1. cmd[p] \in Command
    BY <1>13, AtType DEF RestoreContact, At
  <2>2. /\ [cmd[p] EXCEPT !.half = TRUE] \in Command
        /\ [cmd[p] EXCEPT !.at = "unlist", !.half = FALSE] \in Command
    BY <2>1 DEF Command
  <2> QED  BY <1>13, <2>1, <2>2, GotoType DEF RestoreContact, Half, TypeOK, Command
<1>14. ASSUME NEW p \in Proc, RestoreIndex(p) PROVE TypeOK'
  <2>1. cmd[p] \in Command
    BY <1>14, AtType DEF RestoreIndex, At
  <2>2. [cmd[p] EXCEPT !.half = TRUE] \in Command
    BY <2>1 DEF Command
  <2> QED  BY <1>14, <2>1, <2>2, GotoType DEF RestoreIndex, Half, End, Before, TypeOK, Command
<1>15. ASSUME NEW p \in Writer, Die(p) PROVE TypeOK'
  BY <1>15, AtType, GotoType, ContactsAssumption DEF Die, End, TypeOK, Proc
<1>16. CASE UNCHANGED vars
  BY <1>16 DEF vars, TypeOK
<1> QED
  BY <1>1, <1>2, <1>3, <1>4, <1>5, <1>6, <1>7, <1>8, <1>9, <1>10, <1>11, <1>12, <1>13, <1>14,
     <1>15, <1>16 DEF Next, GoOn

-----------------------------------------------------------------------------
(* Steps.                                                                  *)

(* A step of one command that changes neither the index nor what is        *)
(* vouched for leaves the other commands as they were.                     *)
LEMMA QuietStep ==
    ASSUME IInv, TypeOK', NEW p \in Proc, NEW c \in Command \cup {Null}, Goto(p, c),
           UNCHANGED <<index, vouched>>, c # Null => CommandOK(p, c)
    PROVE  IInv'
<1>1. cmd'[p] = c /\ \A q \in Proc : q # p => cmd'[q] = cmd[q]
  BY GotoType DEF IInv
<1>2. \A q \in Proc : cmd'[q] # Null => CommandOK(q, cmd'[q])
  BY <1>1 DEF IInv
<1> QED
  BY <1>2 DEF IInv, IndexIsVouched, CommandOK, PinIsKnown, BothAreVouched, OldIndexIsKnown,
     Opened, Loaded

(* A step of the only command that writes may change both: no other        *)
(* command depends on them.                                                *)
LEMMA WriterStepIsAlone ==
    ASSUME OneWriter, IInv, TypeOK', IndexIsVouched',
           NEW p \in Writer, NEW c \in Command \cup {Null}, Goto(p, c),
           c # Null => CommandOK(p, c)'
    PROVE  IInv'
<1>1. /\ cmd'[p] = c
      /\ \A q \in Proc : q # p => cmd'[q] = cmd[q]
  BY GotoType DEF IInv, Proc
<1>2. ASSUME NEW q \in Proc, q # p, cmd[q] # Null
      PROVE  CommandOK(q, cmd[q])'
  BY <1>1, <1>2 DEF IInv, CommandOK, OneWriter, PinIsKnown
<1> QED
  BY <1>1, <1>2 DEF IInv, CommandOK

LEMMA NextIInv == OneWriter /\ IInv /\ [Next]_vars => IInv'
<1> SUFFICES ASSUME OneWriter, IInv, [Next]_vars PROVE IInv'
  OBVIOUS
<1>0. TypeOK /\ TypeOK'
  BY NextTypeOK DEF IInv
<1> USE <1>0
<1>1. ASSUME NEW r \in Route, NEW p \in Sender, StartSend(p, r) PROVE IInv'
  <2> DEFINE c == Begin("send", "index", r, Null)
  <2>1. c \in Command /\ CommandOK(p, c)
    BY DEF Begin, Command, Pin, None, CommandOK, PinIsKnown, WriterStep
  <2> QED  BY <1>1, <2>1, QuietStep DEF StartSend, Proc, history
<1>2. ASSUME NEW r \in Route, NEW p \in Writer, NEW k \in KeysAt[r] \cup {Null}, StartDiscover(p, r, k)
      PROVE IInv'
  <2> DEFINE c == Begin("discover", "index", r, k)
  <2>1. c \in Command /\ CommandOK(p, c)
    BY DEF Begin, Command, Pin, None, Key, CommandOK, PinIsKnown, WriterStep
  <2> QED  BY <1>2, <2>1, QuietStep DEF StartDiscover, Proc, history
<1>3. ASSUME NEW r \in Route, NEW p \in Writer, NEW k \in KeysAt[r], StartImport(p, r, k)
      PROVE IInv'
  <2> DEFINE c == Begin("import", "put", r, k)
  <2>1. c \in Command /\ CommandOK(p, c)
    BY DEF Begin, Command, Pin, None, Key, CommandOK, PinIsKnown, BothAreVouched, OldIndexIsKnown,
           Opened, Loaded
  <2> QED  BY <1>3, <2>1, QuietStep DEF StartImport, Proc, history
<1>4. ASSUME NEW p \in Proc, LookUp(p) PROVE IInv'
  <2> DEFINE c == [cmd[p] EXCEPT !.known = vouched[cmd[p].route]]
  <2>1. cmd[p] \in Command /\ cmd[p].route \in Route
    BY <1>4, AtType DEF LookUp, At
  <2>2. UNCHANGED <<index, vouched>>
    BY <1>4 DEF LookUp, history
  <2>3. ASSUME NEW pin \in Pinned(c)
        PROVE  /\ index \in [Route -> Pin]
               /\ pin = index[cmd[p].route]
               /\ pin \in Pin
               /\ vouched[cmd[p].route] # {} => pin \in vouched[cmd[p].route]
    <3>1. c.route = cmd[p].route
      BY <2>1 DEF Command
    <3>2. index # Torn /\ pin = index[cmd[p].route]
      BY <3>1 DEF Pinned
    <3>3. index \in [Route -> Pin]
      BY <3>2 DEF TypeOK
    <3> QED  BY <2>1, <3>2, <3>3 DEF IInv, IndexIsVouched
  <2>4. ASSUME NEW pin \in Pinned(c), pin = Null, Goto(p, [c EXCEPT !.at = "ask"])
        PROVE  IInv'
    <3>1. [c EXCEPT !.at = "ask"] \in Command
      BY <2>1 DEF Command, TypeOK
    <3>2. vouched[cmd[p].route] = {}
      BY <2>1, <2>3, <2>4, ContactsAssumption DEF TypeOK
    <3>3. CommandOK(p, [c EXCEPT !.at = "ask"])
      <4>1. CommandOK(p, cmd[p])
        BY <1>4 DEF LookUp, At, IInv
      <4>2. cmd[p].at = "index"
        BY <1>4 DEF LookUp, At
      <4> QED  BY <2>1, <3>2, <4>1, <4>2 DEF CommandOK, PinIsKnown, WriterStep, Command
    <3> QED  BY <2>2, <2>4, <3>1, <3>3, QuietStep
  <2>5. ASSUME NEW pin \in Pinned(c), Goto(p, [c EXCEPT !.at = "file", !.key = pin])
        PROVE  IInv'
    <3>1. [c EXCEPT !.at = "file", !.key = pin] \in Command
      BY <2>1, <2>3 DEF Command, TypeOK
    <3>2. CommandOK(p, [c EXCEPT !.at = "file", !.key = pin])
      <4>1. CommandOK(p, cmd[p])
        BY <1>4 DEF LookUp, At, IInv
      <4>2. cmd[p].at = "index"
        BY <1>4 DEF LookUp, At
      <4> QED  BY <2>1, <2>3, <4>1, <4>2 DEF CommandOK, PinIsKnown, WriterStep, Command
    <3> QED  BY <2>2, <2>5, <3>1, <3>2, QuietStep
  <2>6. CASE End(p)
    BY <2>2, <2>6, QuietStep DEF End
  <2> QED  BY <1>4, <2>4, <2>5, <2>6 DEF LookUp
<1>5. ASSUME NEW p \in Proc, ReadContact(p) PROVE IInv'
  <2> DEFINE c == [cmd[p] EXCEPT !.at = "ask"]
  <2>1. cmd[p] \in Command /\ cmd[p].at = "file"
    BY <1>5, AtType DEF ReadContact, At
  <2>2. c \in Command /\ CommandOK(p, c)
    BY <1>5, <2>1 DEF ReadContact, At, Command, IInv, CommandOK, PinIsKnown, WriterStep
  <2> QED  BY <1>5, <2>2, QuietStep DEF ReadContact, Step, End, history
<1>6. ASSUME NEW p \in Proc, Discovered(p) PROVE IInv'
  <2> DEFINE c == cmd[p]
  <2>1. c \in Command /\ c # Null /\ c.at = "ask" /\ PinIsKnown(c)
    BY <1>6, AtType DEF Discovered, At, IInv, CommandOK
  <2>2. UNCHANGED <<index, vouched>>
    BY <1>6 DEF Discovered, history
  <2>3. ASSUME NEW k \in KeysAt[c.route], c.key \in {Null, k},
               Goto(p, [c EXCEPT !.at = "use", !.key = k])
        PROVE  IInv'
    <3>1. k \in Key
      BY <2>1 DEF Command, Key
    <3>2. [c EXCEPT !.at = "use", !.key = k] \in Command
      BY <2>1, <3>1 DEF Command, Pin
    <3>3. c.known # {} => c.key = k
      BY <2>1, <2>3, ContactsAssumption DEF PinIsKnown, Command
    <3>4. CommandOK(p, [c EXCEPT !.at = "use", !.key = k])
      BY <2>1, <3>3 DEF CommandOK, PinIsKnown, WriterStep, Command, IInv
    <3> QED  BY <2>2, <2>3, <3>2, <3>4, QuietStep
  <2>4. CASE c.op = "discover" /\ c.key \in KeysAt[c.route] /\ Step(p, "put")
    <3>1. c.key \in Key
      BY <2>1, <2>4 DEF Command, Key
    <3>2. p \in Writer
      BY <2>1, <2>4 DEF IInv, CommandOK
    <3>3. [c EXCEPT !.at = "put"] \in Command
      BY <2>1 DEF Command
    <3>4. c.half = FALSE
      BY <2>1 DEF IInv, CommandOK
    <3>5. CommandOK(p, [c EXCEPT !.at = "put"])
      BY <2>1, <3>1, <3>2, <3>4 DEF CommandOK, PinIsKnown, BothAreVouched, OldIndexIsKnown,
         Opened, Loaded, Command
    <3> QED  BY <2>2, <2>4, <3>3, <3>5, QuietStep DEF Step
  <2>5. CASE End(p)
    BY <2>2, <2>5, QuietStep DEF End
  <2> QED  BY <1>6, <2>3, <2>4, <2>5 DEF Discovered
<1>7. ASSUME NEW p \in Proc, SendMessage(p) PROVE IInv'
  BY <1>7, QuietStep DEF SendMessage, End, history
<1>8. ASSUME NEW p \in Proc, PutContact(p) PROVE IInv'
  <2> DEFINE c == cmd[p]
             r == c.route
  <2>1. /\ c \in Command /\ c.route \in Route /\ c.key \in Key /\ p \in Writer
        /\ c # Null /\ c.at = "put" /\ CommandOK(p, c)
    BY <1>8, AtType, WriterHasKey DEF PutContact, At, WriterStep, IInv
  <2>2. CASE ~ c.half
    <3>0. PICK d \in Command : d = [c EXCEPT !.half = TRUE, !.was = contact[r], !.known = vouched[r]]
      BY <2>1 DEF Command, TypeOK
    <3>1. /\ Goto(p, d)
          /\ vouched' = [vouched EXCEPT ![r] = IF @ = {} THEN @ ELSE @ \cup {c.key}]
          /\ index' = index
      BY <1>8, <2>2, <3>0 DEF PutContact
    <3>2. d.route = r /\ d.key = c.key /\ d.known = vouched[r] /\ d.at = "put" /\ d.op = c.op
      BY <2>1, <3>0 DEF Command
    <3>3. IndexIsVouched'
      BY <2>1, <3>1 DEF IInv, IndexIsVouched, TypeOK
    <3>4. CommandOK(p, d)'
      <4>1. vouched'[r] = IF vouched[r] = {} THEN {} ELSE vouched[r] \cup {c.key}
        BY <2>1, <3>1 DEF TypeOK
      <4> QED  BY <2>1, <3>1, <3>2, <4>1 DEF CommandOK, PinIsKnown, BothAreVouched,
                  OldIndexIsKnown, Opened, Loaded, IInv, IndexIsVouched
    <3> QED  BY <2>1, <3>1, <3>2, <3>3, <3>4, WriterStepIsAlone
  <2>3. CASE c.half
    <3> DEFINE d == [c EXCEPT !.at = "load", !.half = FALSE]
    <3>1. Goto(p, d) /\ UNCHANGED <<index, vouched>>
      BY <1>8, <2>3 DEF PutContact
    <3>2. /\ d \in Command
          /\ d.route = r /\ d.key = c.key /\ d.known = c.known /\ d.at = "load" /\ d.op = c.op
      BY <2>1 DEF Command
    <3> HIDE DEF d
    <3>3. CommandOK(p, d)
      BY <2>1, <2>3, <3>2 DEF CommandOK, PinIsKnown, BothAreVouched, OldIndexIsKnown,
         Opened, Loaded, WriterStep
    <3> QED  BY <3>1, <3>2, <3>3, QuietStep
  <2> QED  BY <2>2, <2>3
<1>9. ASSUME NEW p \in Proc, LoadIndex(p) PROVE IInv'
  <2> DEFINE c == cmd[p]
             d == [c EXCEPT !.at = "list", !.base = index]
  <2>1. c \in Command /\ c.route \in Route /\ c # Null /\ c.at = "load" /\ CommandOK(p, c)
    BY <1>9, AtType DEF LoadIndex, At, IInv
  <2>2. UNCHANGED <<index, vouched>>
    BY <1>9 DEF LoadIndex, history
  <2>3. CASE index = Torn
    BY <1>9, <2>2, <2>3, QuietStep DEF LoadIndex, End
  <2>4. CASE index # Torn
    <3>1. d \in Command
      BY <2>1, <2>4 DEF Command, TypeOK
    <3>2. CommandOK(p, d)
      BY <2>1, <2>4 DEF Command, CommandOK, PinIsKnown, BothAreVouched, OldIndexIsKnown,
         Opened, Loaded, IInv, IndexIsVouched, WriterStep
    <3> QED  BY <1>9, <2>2, <2>4, <3>1, <3>2, QuietStep DEF LoadIndex
  <2> QED  BY <2>3, <2>4
<1>10. ASSUME NEW p \in Proc, SaveIndex(p) PROVE IInv'
  <2> DEFINE c == cmd[p]
             r == c.route
  <2>1. /\ c \in Command /\ c.route \in Route /\ c.base \in [Route -> Pin]
        /\ p \in Writer /\ c # Null /\ c.at = "list" /\ CommandOK(p, c)
    BY <1>10, AtType, WriterHasKey DEF SaveIndex, At, WriterStep, IInv
  <2>2. vouched' = vouched
    BY <1>10 DEF SaveIndex, history
  <2>3. CASE ~ c.half
    <3>1. PICK d \in Command : d = [c EXCEPT !.half = TRUE]
      BY <2>1 DEF Command
    <3>2. index' = Torn /\ Goto(p, d)
      BY <1>10, <2>3, <3>1 DEF SaveIndex, Half
    <3>3. IndexIsVouched' /\ CommandOK(p, d)'
      BY <2>1, <2>2, <3>1, <3>2 DEF Command, CommandOK, PinIsKnown, BothAreVouched, OldIndexIsKnown,
         Opened, Loaded, IndexIsVouched, WriterStep
    <3> QED  BY <2>1, <3>2, <3>3, WriterStepIsAlone
  <2>4. CASE c.half
    <3>1. PICK d \in Command : d = [c EXCEPT !.at = "pin", !.half = FALSE]
      BY <2>1 DEF Command
    <3>2. index' = [c.base EXCEPT ![r] = c.key] /\ Goto(p, d)
      BY <1>10, <2>4, <3>1 DEF SaveIndex
    <3>3. IndexIsVouched'
      BY <2>1, <2>2, <3>2 DEF CommandOK, BothAreVouched, OldIndexIsKnown, Loaded, IndexIsVouched,
         WriterStep
    <3>4. CommandOK(p, d)'
      BY <2>1, <2>2, <3>1, <3>2 DEF Command, CommandOK, PinIsKnown, BothAreVouched, OldIndexIsKnown,
         Opened, Loaded, WriterStep
    <3> QED  BY <2>1, <3>2, <3>3, <3>4, WriterStepIsAlone
  <2> QED  BY <2>3, <2>4
<1>11. ASSUME NEW p \in Proc, ImportPin(p) PROVE IInv'
  <2> DEFINE c == cmd[p]
             r == c.route
  <2>1. /\ c \in Command /\ c.route \in Route /\ c.base \in [Route -> Pin]
        /\ p \in Writer /\ c # Null /\ c.at = "pin" /\ CommandOK(p, c)
    BY <1>11, AtType, WriterHasKey DEF ImportPin, At, WriterStep, IInv
  <2>2. Goto(p, Null) /\ vouched' = [vouched EXCEPT ![r] = {c.key}] /\ index' = index
    BY <1>11 DEF ImportPin, End
  <2>3. index[r] = c.key
    BY <2>1 DEF CommandOK, OldIndexIsKnown, WriterStep
  <2>4. IndexIsVouched'
    BY <2>1, <2>2, <2>3 DEF IInv, IndexIsVouched, TypeOK
  <2> QED  BY <2>1, <2>2, <2>4, WriterStepIsAlone
<1>12. ASSUME NEW p \in Writer, ImportPinFails(p) PROVE IInv'
  <2> DEFINE c == cmd[p]
             d == [c EXCEPT !.at = "undo"]
  <2>1. p \in Proc /\ c \in Command /\ c.at = "pin" /\ CommandOK(p, c)
    BY <1>12, AtType DEF ImportPinFails, At, IInv, Proc
  <2>2. d \in Command /\ CommandOK(p, d)
    BY <2>1 DEF Command, CommandOK, PinIsKnown, BothAreVouched, OldIndexIsKnown, Opened, Loaded,
       WriterStep
  <2> QED  BY <1>12, <2>1, <2>2, QuietStep DEF ImportPinFails, Step, history
<1>13. ASSUME NEW p \in Proc, RestoreContact(p) PROVE IInv'
  <2> DEFINE c == cmd[p]
  <2>1. c \in Command /\ c.at = "undo" /\ CommandOK(p, c)
    BY <1>13, AtType DEF RestoreContact, At, IInv
  <2>2. /\ [c EXCEPT !.half = TRUE] \in Command /\ CommandOK(p, [c EXCEPT !.half = TRUE])
        /\ [c EXCEPT !.at = "unlist", !.half = FALSE] \in Command
        /\ CommandOK(p, [c EXCEPT !.at = "unlist", !.half = FALSE])
    BY <2>1 DEF Command, CommandOK, PinIsKnown, BothAreVouched, OldIndexIsKnown, Opened, Loaded,
       WriterStep
  <2> QED  BY <1>13, <2>2, QuietStep DEF RestoreContact, Half, history
<1>14. ASSUME NEW p \in Proc, RestoreIndex(p) PROVE IInv'
  <2> DEFINE c == cmd[p]
             r == c.route
  <2>1. /\ c \in Command /\ c.route \in Route /\ c.base \in [Route -> Pin]
        /\ p \in Writer /\ c # Null /\ c.at = "unlist" /\ CommandOK(p, c)
    BY <1>14, AtType, WriterHasKey DEF RestoreIndex, At, WriterStep, IInv
  <2>2. CASE ~ c.half /\ c.base # None
    <3>1. PICK d \in Command : d = [c EXCEPT !.half = TRUE]
      BY <2>1 DEF Command
    <3>2. index' = Torn /\ Goto(p, d) /\ vouched' = vouched
      BY <1>14, <2>2, <3>1 DEF RestoreIndex, Half
    <3>3. IndexIsVouched' /\ CommandOK(p, d)'
      BY <2>1, <3>1, <3>2 DEF Command, CommandOK, PinIsKnown, BothAreVouched, OldIndexIsKnown,
         Opened, Loaded, IndexIsVouched, WriterStep
    <3> QED  BY <2>1, <3>2, <3>3, WriterStepIsAlone
  <2>3. CASE ~ (~ c.half /\ c.base # None)
    <3>1. index' = c.base /\ Goto(p, Null) /\ vouched' = [vouched EXCEPT ![r] = c.known]
      BY <1>14, <2>3 DEF RestoreIndex, Before, End
    <3>2. IndexIsVouched'
      BY <2>1, <3>1 DEF CommandOK, OldIndexIsKnown, Loaded, IndexIsVouched, WriterStep, TypeOK
    <3> QED  BY <2>1, <3>1, <3>2, WriterStepIsAlone
  <2> QED  BY <2>2, <2>3
<1>15. ASSUME NEW p \in Writer, Die(p) PROVE IInv'
  BY <1>15, QuietStep DEF Die, End, Proc
<1>16. CASE UNCHANGED vars
  BY <1>16 DEF vars, history, IInv, IndexIsVouched, CommandOK, PinIsKnown, BothAreVouched,
     OldIndexIsKnown, Opened, Loaded
<1> QED
  BY <1>1, <1>2, <1>3, <1>4, <1>5, <1>6, <1>7, <1>8, <1>9, <1>10, <1>11, <1>12, <1>13, <1>14,
     <1>15, <1>16 DEF Next, GoOn

LEMMA Invariance == ASSUME OneWriter PROVE Spec => []IInv
  BY InitIInv, NextIInv, PTL DEF Spec

(* Every variable keeps its type: the state files, and what each command   *)
(* knows, whichever of them was read or written while it was torn.         *)
THEOREM ContactsTypeCorrect == ASSUME OneWriter PROVE Spec => []TypeOK
<1>1. IInv => TypeOK
  BY DEF IInv
<1> QED  BY <1>1, Invariance, PTL

(* Any number of sends beside one command that writes: each seals for a    *)
(* key the user vouched for, once there is one for its route.              *)
THEOREM PinsAlwaysHold == ASSUME OneWriter PROVE Spec => []PinsHold
<1>1. IInv => PinsHold
  BY DEF IInv, CommandOK, PinIsKnown, PinsHold, At
<1> QED  BY <1>1, Invariance, PTL

-----------------------------------------------------------------------------
(* File and index.                                                         *)

Agree == index # Torn => \A r \in Route \ spoiled : contact[r] = index[r]

(* On the other routes the contact files agree with what the index held,   *)
(* and on its own an import can put back what agreed with it.              *)
RestAgrees(c, pins) ==
    /\ \A s \in Route \ spoiled : s # c.route => contact[s] = pins[s]
    /\ c.route \notin spoiled => c.was = pins[c.route]

Writing(c) == Opened(c) \/ Loaded(c)

WriterAgrees(c) ==
    /\ ~ Writing(c) => Agree
    /\ Opened(c) /\ index # Torn => RestAgrees(c, index)
    /\ Loaded(c) => RestAgrees(c, c.base)
    /\ c.at \in {"load", "list", "pin"} => contact[c.route] = c.key
    /\ c.at = "list" /\ index # Torn => index = c.base
    /\ c.at \in {"undo", "unlist"} /\ index # Torn => index = [c.base EXCEPT ![c.route] = c.key]
    /\ c.at = "unlist" => contact[c.route] = c.was

AInv ==
    /\ (\A p \in Writer : cmd[p] = Null) => Agree
    /\ \A p \in Writer : cmd[p] # Null => WriterAgrees(cmd[p])

(* A step of a process that does not write contacts.                       *)
LEMMA SenderStep ==
    ASSUME IInv, AInv, NEW p \in Sender, NEW c \in Command \cup {Null}, Goto(p, c),
           UNCHANGED <<contact, index, spoiled>>
    PROVE  AInv'
<1>1. \A q \in Writer : cmd'[q] = cmd[q]
  BY GotoType, ContactsAssumption DEF IInv, Proc
<1> QED
  BY <1>1 DEF AInv, WriterAgrees, Agree, RestAgrees, Writing, Opened, Loaded

(* A step of the only process that does.                                   *)
LEMMA WriterStepAgrees ==
    ASSUME OneWriter, IInv, NEW p \in Writer, NEW c \in Command \cup {Null}, Goto(p, c),
           c = Null => Agree', c # Null => WriterAgrees(c)'
    PROVE  AInv'
<1>1. cmd'[p] = c /\ \A q \in Writer : q = p
  BY GotoType DEF IInv, Proc, OneWriter
<1> QED  BY <1>1 DEF AInv, WriterAgrees

LEMMA NextAInv == OneWriter /\ IInv /\ AInv /\ [Next]_vars => AInv'
<1> SUFFICES ASSUME OneWriter, IInv, AInv, [Next]_vars PROVE AInv'
  OBVIOUS
<1>0. TypeOK
  BY DEF IInv
<1> USE <1>0
<1> USE DEF history
(* What the writer knows before its step.                                  *)
<1>a. ASSUME NEW p \in Writer
      PROVE  cmd[p] = Null => Agree
  BY <1>a DEF AInv, OneWriter
<1>b. ASSUME NEW p \in Writer, cmd[p] # Null
      PROVE  /\ WriterAgrees(cmd[p]) /\ cmd[p] \in Command /\ CommandOK(p, cmd[p])
             /\ cmd[p].route \in Route /\ cmd[p].base \in [Route -> Pin]
  BY <1>b, AtType DEF AInv, IInv, Proc
<1>1. ASSUME NEW r \in Route, NEW p \in Sender, StartSend(p, r) PROVE AInv'
  <2>1. Begin("send", "index", r, Null) \in Command
    BY DEF Begin, Command, Pin, None
  <2> QED  BY <1>1, <2>1, SenderStep DEF StartSend
<1>2. ASSUME NEW p \in Writer, NEW d \in Command, cmd[p] = Null, Goto(p, d), ~ Writing(d),
             UNCHANGED <<contact, index, spoiled>>
      PROVE  AInv'
  <2>1. WriterAgrees(d)'
    BY <1>2, <1>a DEF WriterAgrees, Agree, Writing, Opened, Loaded
  <2> QED  BY <1>2, <2>1, WriterStepAgrees, NullIsNoCommand
<1>3. ASSUME NEW r \in Route, NEW p \in Writer, NEW k \in KeysAt[r] \cup {Null}, StartDiscover(p, r, k)
      PROVE  AInv'
  <2>1. /\ Begin("discover", "index", r, k) \in Command
        /\ ~ Writing(Begin("discover", "index", r, k))
    BY DEF Begin, Command, Pin, None, Key, Writing, Opened, Loaded
  <2> QED  BY <1>2, <1>3, <2>1 DEF StartDiscover
<1>4. ASSUME NEW r \in Route, NEW p \in Writer, NEW k \in KeysAt[r], StartImport(p, r, k)
      PROVE  AInv'
  <2>1. /\ Begin("import", "put", r, k) \in Command
        /\ ~ Writing(Begin("import", "put", r, k))
    BY DEF Begin, Command, Pin, None, Key, Writing, Opened, Loaded
  <2> QED  BY <1>2, <1>4, <2>1 DEF StartImport
(* Looking up and discovering.                                             *)
<1>5. ASSUME NEW p \in Proc, LookUp(p) \/ ReadContact(p) \/ Discovered(p) \/ SendMessage(p)
      PROVE  AInv'
  <2>1. /\ cmd[p] # Null /\ cmd[p].at \in {"index", "file", "ask", "use"}
        /\ UNCHANGED <<contact, index, spoiled>>
    BY <1>5 DEF LookUp, ReadContact, Discovered, SendMessage, At
  <2>2. PICK d \in Command \cup {Null} : Goto(p, d) /\ (d # Null => ~ Writing(d))
    <3>1. cmd[p] \in Command /\ CommandOK(p, cmd[p])
      BY <2>1, AtType DEF IInv
    <3>2. CASE LookUp(p)
      <4> DEFINE c == [cmd[p] EXCEPT !.known = vouched[cmd[p].route]]
      <4>1. c \in Command
        BY <3>1 DEF Command, TypeOK
      <4>2. Pinned(c) \subseteq Pin
        <5>1. c.route \in Route
          BY <4>1 DEF Command
        <5> HIDE DEF c
        <5> QED  BY <5>1 DEF Pinned, TypeOK
      <4>3. /\ [c EXCEPT !.at = "ask"] \in Command
            /\ \A pin \in Pin : [c EXCEPT !.at = "file", !.key = pin] \in Command
        BY <4>1 DEF Command
      <4>4. /\ ~ Writing([c EXCEPT !.at = "ask"])
            /\ \A pin \in Pin : ~ Writing([c EXCEPT !.at = "file", !.key = pin])
        BY <3>1 DEF Command, Writing, Opened, Loaded
      <4>5. \/ Goto(p, Null)
            \/ Goto(p, [c EXCEPT !.at = "ask"])
            \/ \E pin \in Pin : Goto(p, [c EXCEPT !.at = "file", !.key = pin])
        BY <3>2, <4>2 DEF LookUp, End
      <4> QED  BY <4>3, <4>4, <4>5
    <3>3. CASE ReadContact(p)
      <4>1. [cmd[p] EXCEPT !.at = "ask"] \in Command /\ ~ Writing([cmd[p] EXCEPT !.at = "ask"])
        BY <3>1 DEF Command, Writing, Opened, Loaded
      <4> QED  BY <3>3, <4>1 DEF ReadContact, Step, End
    <3>4. CASE Discovered(p)
      <4>1. cmd[p].at = "ask" /\ ~ cmd[p].half
        BY <3>1, <3>4 DEF Discovered, At, CommandOK
      <4>2. \A k \in Key : /\ [cmd[p] EXCEPT !.at = "use", !.key = k] \in Command
                          /\ ~ Writing([cmd[p] EXCEPT !.at = "use", !.key = k])
        BY <3>1 DEF Command, Pin, Writing, Opened, Loaded
      <4>3. [cmd[p] EXCEPT !.at = "put"] \in Command /\ ~ Writing([cmd[p] EXCEPT !.at = "put"])
        BY <3>1, <4>1 DEF Command, Writing, Opened, Loaded
      <4>4. KeysAt[cmd[p].route] \subseteq Key
        BY <3>1 DEF Command, Key
      <4>5. \/ Goto(p, Null)
            \/ Goto(p, [cmd[p] EXCEPT !.at = "put"])
            \/ \E k \in Key : Goto(p, [cmd[p] EXCEPT !.at = "use", !.key = k])
        BY <3>4, <4>4 DEF Discovered, Step, End
      <4> QED  BY <4>2, <4>3, <4>5
    <3>5. CASE SendMessage(p)
      BY <3>5 DEF SendMessage, End
    <3> QED  BY <1>5, <3>2, <3>3, <3>4, <3>5
  <2>3. CASE p \in Sender
    BY <2>1, <2>2, <2>3, SenderStep
  <2>4. CASE p \in Writer
    <3>1. Agree
      BY <1>b, <2>1, <2>4 DEF WriterAgrees, Writing, Opened, Loaded
    <3>2. Agree'
      BY <2>1, <3>1 DEF Agree
    <3>3. d # Null => WriterAgrees(d)'
      BY <2>2, <3>2 DEF WriterAgrees, Writing, Opened, Loaded
    <3> QED  BY <2>2, <2>4, <3>2, <3>3, WriterStepAgrees
  <2> QED  BY <2>3, <2>4 DEF Proc
(* Writing.                                                                *)
<1>6. ASSUME NEW p \in Proc, PutContact(p) PROVE AInv'
  <2> DEFINE c == cmd[p]
             r == c.route
  <2>1. c # Null /\ c.at = "put" /\ p \in Writer
    BY <1>6, WriterHasKey DEF PutContact, At, WriterStep
  <2>2. WriterAgrees(c) /\ c \in Command /\ r \in Route
    BY <1>b, <2>1
  <2>3. CASE ~ c.half
    <3>1. PICK d \in Command : d = [c EXCEPT !.half = TRUE, !.was = contact[r], !.known = vouched[r]]
      BY <2>2 DEF Command, TypeOK
    <3>2. Goto(p, d) /\ contact' = [contact EXCEPT ![r] = Torn] /\ UNCHANGED <<index, spoiled>>
      BY <1>6, <2>3, <3>1 DEF PutContact
    <3>3. d.at = "put" /\ d.half /\ d.route = r /\ d.was = contact[r]
      BY <2>1, <2>2, <3>1 DEF Command
    <3>4. Agree
      BY <2>1, <2>2, <2>3 DEF WriterAgrees, Writing, Opened, Loaded
    <3>5. index # Torn => RestAgrees(d, index)'
      BY <2>2, <3>2, <3>3, <3>4 DEF Agree, RestAgrees, TypeOK
    <3>6. WriterAgrees(d)'
      BY <3>2, <3>3, <3>5 DEF WriterAgrees, Writing, Opened, Loaded
    <3> QED  BY <2>1, <3>2, <3>6, NullIsNoCommand, WriterStepAgrees
  <2>4. CASE c.half
    <3>1. PICK d \in Command : d = [c EXCEPT !.at = "load", !.half = FALSE]
      BY <2>2 DEF Command
    <3>2. Goto(p, d) /\ contact' = [contact EXCEPT ![r] = c.key] /\ UNCHANGED <<index, spoiled>>
      BY <1>6, <2>4, <3>1 DEF PutContact, NewContact
    <3>3. d.at = "load" /\ d.route = r /\ d.was = c.was /\ d.key = c.key
      BY <2>2, <3>1 DEF Command
    <3>4. index # Torn => RestAgrees(c, index)
      BY <2>1, <2>2, <2>4 DEF WriterAgrees, Opened
    <3>5. index # Torn => RestAgrees(d, index)'
      BY <2>2, <3>2, <3>3, <3>4 DEF RestAgrees, TypeOK
    <3>6. WriterAgrees(d)'
      BY <2>2, <3>2, <3>3, <3>5 DEF TypeOK, WriterAgrees, Writing, Opened, Loaded
    <3> QED  BY <2>1, <3>2, <3>6, NullIsNoCommand, WriterStepAgrees
  <2> QED  BY <2>3, <2>4
<1>7. ASSUME NEW p \in Proc, LoadIndex(p) PROVE AInv'
  <2> DEFINE c == cmd[p]
             r == c.route
  <2>1. c # Null /\ c.at = "load" /\ p \in Writer
    BY <1>7, WriterHasKey DEF LoadIndex, At, WriterStep
  <2>2. WriterAgrees(c) /\ c \in Command
    BY <1>b, <2>1
  <2>3. UNCHANGED <<contact, index, spoiled>>
    BY <1>7 DEF LoadIndex
  <2>4. CASE index = Torn
    BY <1>7, <2>1, <2>3, <2>4, WriterStepAgrees DEF LoadIndex, End, Agree
  <2>5. CASE index # Torn
    <3>1. PICK d \in Command : d = [c EXCEPT !.at = "list", !.base = index]
      BY <2>2, <2>5 DEF Command, TypeOK
    <3>2. Goto(p, d)
      BY <1>7, <2>5, <3>1 DEF LoadIndex
    <3>3. d.at = "list" /\ d.route = r /\ d.was = c.was /\ d.base = index /\ d.key = c.key
      BY <2>2, <3>1 DEF Command
    <3>4. RestAgrees(c, index) /\ contact[r] = c.key
      BY <2>1, <2>2, <2>5 DEF WriterAgrees, Opened
    <3>5. RestAgrees(d, d.base)'
      BY <2>3, <3>3, <3>4 DEF RestAgrees
    <3>6. WriterAgrees(d)'
      BY <2>3, <3>3, <3>4, <3>5 DEF WriterAgrees, Writing, Opened, Loaded
    <3> QED  BY <2>1, <3>2, <3>6, NullIsNoCommand, WriterStepAgrees
  <2> QED  BY <2>4, <2>5
<1>8. ASSUME NEW p \in Proc, SaveIndex(p) PROVE AInv'
  <2> DEFINE c == cmd[p]
             r == c.route
  <2>1. c # Null /\ c.at = "list" /\ p \in Writer
    BY <1>8, WriterHasKey DEF SaveIndex, At, WriterStep
  <2>2. WriterAgrees(c) /\ c \in Command
    BY <1>b, <2>1
  <2>3. RestAgrees(c, c.base) /\ contact[r] = c.key
    BY <2>1, <2>2 DEF WriterAgrees, Loaded
  <2>4. UNCHANGED <<contact, spoiled>>
    BY <1>8 DEF SaveIndex
  <2>5. CASE ~ c.half
    <3>1. PICK d \in Command : d = [c EXCEPT !.half = TRUE]
      BY <2>2 DEF Command
    <3>2. Goto(p, d) /\ index' = Torn
      BY <1>8, <2>5, <3>1 DEF SaveIndex, Half
    <3>3. d.at = "list" /\ d.route = r /\ d.was = c.was /\ d.base = c.base /\ d.key = c.key
      BY <2>1, <2>2, <3>1 DEF Command
    <3>4. RestAgrees(d, d.base)'
      BY <2>3, <2>4, <3>3 DEF RestAgrees
    <3>5. WriterAgrees(d)'
      BY <2>3, <2>4, <3>2, <3>3, <3>4 DEF WriterAgrees, Writing, Opened, Loaded
    <3> QED  BY <2>1, <3>2, <3>5, NullIsNoCommand, WriterStepAgrees
  <2>6. CASE c.half
    <3>1. PICK d \in Command : d = [c EXCEPT !.at = "pin", !.half = FALSE]
      BY <2>2 DEF Command
    <3>2. Goto(p, d) /\ index' = [c.base EXCEPT ![r] = c.key]
      BY <1>8, <2>6, <3>1 DEF SaveIndex
    <3>3. d.at = "pin" /\ d.route = r /\ d.was = c.was /\ d.base = c.base /\ d.key = c.key
      BY <2>2, <3>1 DEF Command
    <3>4. RestAgrees(d, d.base)'
      BY <2>3, <2>4, <3>3 DEF RestAgrees
    <3>5. WriterAgrees(d)'
      BY <2>3, <2>4, <3>2, <3>3, <3>4 DEF WriterAgrees, Writing, Opened, Loaded
    <3> QED  BY <2>1, <3>2, <3>5, NullIsNoCommand, WriterStepAgrees
  <2> QED  BY <2>5, <2>6
<1>9. ASSUME NEW p \in Proc, ImportPin(p) PROVE AInv'
  <2> DEFINE c == cmd[p]
             r == c.route
  <2>1. c # Null /\ c.at = "pin" /\ p \in Writer
    BY <1>9, WriterHasKey DEF ImportPin, At, WriterStep
  <2>2. /\ WriterAgrees(c) /\ OldIndexIsKnown(c)
        /\ c.base \in [Route -> Pin] /\ r \in Route
    BY <1>b, <2>1 DEF CommandOK, WriterStep
  <2>3. RestAgrees(c, c.base) /\ contact[r] = c.key /\ index = [c.base EXCEPT ![r] = c.key]
    BY <2>1, <2>2 DEF WriterAgrees, Loaded, OldIndexIsKnown
  <2>4. spoiled' = spoiled \ {r} /\ Goto(p, Null) /\ UNCHANGED <<contact, index>>
    BY <1>9 DEF ImportPin, End
  <2>5. ASSUME NEW s \in Route \ spoiled' PROVE contact[s] = index[s]
    <3>1. CASE s = r
      BY <2>2, <2>3, <3>1
    <3>2. CASE s # r
      BY <2>2, <2>3, <2>4, <2>5, <3>2 DEF RestAgrees
    <3> QED  BY <3>1, <3>2
  <2>6. Agree'
    BY <2>4, <2>5 DEF Agree
  <2> QED  BY <2>1, <2>4, <2>6, WriterStepAgrees
<1>10. ASSUME NEW p \in Writer, ImportPinFails(p) PROVE AInv'
  <2> DEFINE c == cmd[p]
             r == c.route
  <2>1. c # Null /\ c.at = "pin"
    BY <1>10 DEF ImportPinFails, At
  <2>2. WriterAgrees(c) /\ c \in Command /\ OldIndexIsKnown(c)
    BY <1>b, <2>1, <1>10 DEF CommandOK, WriterStep
  <2>3. RestAgrees(c, c.base) /\ index = [c.base EXCEPT ![r] = c.key]
    BY <2>1, <2>2 DEF WriterAgrees, Loaded, OldIndexIsKnown
  <2>4. PICK d \in Command : d = [c EXCEPT !.at = "undo"]
    BY <2>2 DEF Command
  <2>5. Goto(p, d) /\ UNCHANGED <<contact, index, spoiled>>
    BY <1>10, <2>4 DEF ImportPinFails, Step
  <2>6. d.at = "undo" /\ d.route = r /\ d.was = c.was /\ d.base = c.base /\ d.key = c.key
    BY <2>2, <2>4 DEF Command
  <2>7. RestAgrees(d, d.base)'
    BY <2>3, <2>5, <2>6 DEF RestAgrees
  <2>8. WriterAgrees(d)'
    BY <2>3, <2>5, <2>6, <2>7 DEF WriterAgrees, Writing, Opened, Loaded
  <2> QED  BY <1>10, <2>5, <2>8, NullIsNoCommand, WriterStepAgrees
<1>11. ASSUME NEW p \in Proc, RestoreContact(p) PROVE AInv'
  <2> DEFINE c == cmd[p]
             r == c.route
  <2>1. c # Null /\ c.at = "undo" /\ p \in Writer
    BY <1>11, WriterHasKey DEF RestoreContact, At, WriterStep
  <2>2. WriterAgrees(c) /\ c \in Command /\ r \in Route
    BY <1>b, <2>1
  <2>3. /\ RestAgrees(c, c.base)
        /\ index # Torn => index = [c.base EXCEPT ![r] = c.key]
    BY <2>1, <2>2 DEF WriterAgrees, Loaded
  <2>4. UNCHANGED <<index, spoiled>>
    BY <1>11 DEF RestoreContact
  <2>5. CASE ~ c.half /\ c.was # Null
    <3>1. PICK d \in Command : d = [c EXCEPT !.half = TRUE]
      BY <2>2 DEF Command
    <3>2. Goto(p, d) /\ contact' = [contact EXCEPT ![r] = Torn]
      BY <1>11, <2>5, <3>1 DEF RestoreContact, Half
    <3>3. d.at = "undo" /\ d.route = r /\ d.was = c.was /\ d.base = c.base /\ d.key = c.key
      BY <2>1, <2>2, <3>1 DEF Command
    <3>4. RestAgrees(d, d.base)'
      BY <2>2, <2>3, <2>4, <3>2, <3>3 DEF RestAgrees, TypeOK
    <3>5. WriterAgrees(d)'
      BY <2>3, <2>4, <3>3, <3>4 DEF WriterAgrees, Writing, Opened, Loaded
    <3> QED  BY <2>1, <3>2, <3>5, NullIsNoCommand, WriterStepAgrees
  <2>6. CASE ~ (~ c.half /\ c.was # Null)
    <3>1. PICK d \in Command : d = [c EXCEPT !.at = "unlist", !.half = FALSE]
      BY <2>2 DEF Command
    <3>2. Goto(p, d) /\ contact' = [contact EXCEPT ![r] = c.was]
      BY <1>11, <2>6, <3>1 DEF RestoreContact
    <3>3. d.at = "unlist" /\ d.route = r /\ d.was = c.was /\ d.base = c.base /\ d.key = c.key
      BY <2>2, <3>1 DEF Command
    <3>4. RestAgrees(d, d.base)'
      BY <2>2, <2>3, <2>4, <3>2, <3>3 DEF RestAgrees, TypeOK
    <3>5. contact'[r] = d.was
      BY <2>2, <3>2, <3>3 DEF TypeOK
    <3>6. WriterAgrees(d)'
      BY <2>3, <2>4, <3>3, <3>4, <3>5 DEF WriterAgrees, Writing, Opened, Loaded
    <3> QED  BY <2>1, <3>2, <3>6, NullIsNoCommand, WriterStepAgrees
  <2> QED  BY <2>5, <2>6
<1>12. ASSUME NEW p \in Proc, RestoreIndex(p) PROVE AInv'
  <2> DEFINE c == cmd[p]
             r == c.route
  <2>1. c # Null /\ c.at = "unlist" /\ p \in Writer
    BY <1>12, WriterHasKey DEF RestoreIndex, At, WriterStep
  <2>2. WriterAgrees(c) /\ c \in Command
    BY <1>b, <2>1
  <2>3. RestAgrees(c, c.base) /\ contact[r] = c.was
    BY <2>1, <2>2 DEF WriterAgrees, Loaded
  <2>4. UNCHANGED <<contact, spoiled>>
    BY <1>12 DEF RestoreIndex
  <2>5. CASE ~ c.half /\ c.base # None
    <3>1. PICK d \in Command : d = [c EXCEPT !.half = TRUE]
      BY <2>2 DEF Command
    <3>2. Goto(p, d) /\ index' = Torn
      BY <1>12, <2>5, <3>1 DEF RestoreIndex, Half
    <3>3. d.at = "unlist" /\ d.route = r /\ d.was = c.was /\ d.base = c.base /\ d.key = c.key
      BY <2>1, <2>2, <3>1 DEF Command
    <3>4. RestAgrees(d, d.base)'
      BY <2>3, <2>4, <3>3 DEF RestAgrees
    <3>5. WriterAgrees(d)'
      BY <2>3, <2>4, <3>2, <3>3, <3>4 DEF WriterAgrees, Writing, Opened, Loaded
    <3> QED  BY <2>1, <3>2, <3>5, NullIsNoCommand, WriterStepAgrees
  <2>6. CASE ~ (~ c.half /\ c.base # None)
    <3>1. index' = c.base /\ Goto(p, Null)
      BY <1>12, <2>6 DEF RestoreIndex, Before, End
    <3>2. Agree'
      BY <2>3, <2>4, <3>1 DEF RestAgrees, Agree
    <3> QED  BY <2>1, <3>1, <3>2, WriterStepAgrees
  <2> QED  BY <2>5, <2>6
<1>13. ASSUME NEW p \in Writer, Die(p) PROVE AInv'
  <2> DEFINE c == cmd[p]
             r == c.route
  <2>1. c # Null /\ spoiled' = spoiled \cup {r} /\ Goto(p, Null) /\ UNCHANGED <<contact, index>>
    BY <1>13 DEF Die, End
  <2>2. WriterAgrees(c)
    BY <1>13, <1>b, <2>1
  <2>3. ASSUME index # Torn, NEW s \in Route \ spoiled, s # r PROVE contact[s] = index[s]
    <3>1. CASE ~ Writing(c)
      BY <2>2, <2>3, <3>1 DEF WriterAgrees, Agree
    <3>2. CASE Opened(c)
      BY <2>2, <2>3, <3>2 DEF WriterAgrees, RestAgrees
    <3>3. CASE Loaded(c)
      <4>1. contact[s] = c.base[s]
        BY <2>2, <2>3, <3>3 DEF WriterAgrees, RestAgrees
      <4>2. index[s] = c.base[s]
        BY <1>13, <1>b, <2>1, <2>2, <2>3, <3>3 DEF WriterAgrees, Loaded, CommandOK, OldIndexIsKnown, WriterStep
      <4> QED  BY <4>1, <4>2
    <3> QED  BY <3>1, <3>2, <3>3 DEF Writing
  <2>4. Agree'
    BY <2>1, <2>3 DEF Agree
  <2> QED  BY <1>13, <2>1, <2>4, WriterStepAgrees
<1>14. CASE UNCHANGED vars
  BY <1>14 DEF vars, AInv, WriterAgrees, Agree, RestAgrees, Writing, Opened, Loaded
<1> QED
  BY <1>1, <1>3, <1>4, <1>5, <1>6, <1>7, <1>8, <1>9, <1>10, <1>11, <1>12, <1>13, <1>14
     DEF Next, GoOn

(* With one command that writes, file and index agree on every route whose *)
(* last import did not die, whenever nobody writes.                        *)
THEOREM ContactsAlwaysAgree == ASSUME OneWriter PROVE Spec => []ContactsAgree
<1>1. Init => AInv
  BY DEF Init, AInv, Agree, Proc
<1>2. AInv => ContactsAgree
  BY DEF AInv, Agree, ContactsAgree
<1> QED  BY <1>1, <1>2, Invariance, NextAInv, PTL DEF Spec

=============================================================================
