------------------------------ MODULE Contacts ------------------------------
(***************************************************************************)
(* A client's contacts: `endpoint contact import', `discover' and `send'   *)
(* on one profile, each a process of its own that takes no lock.           *)
(*                                                                         *)
(* Code: _cmd_contact_import, _cmd_discover, _cmd_send and the contact     *)
(* helpers in src/endpoint/cli.py; contact.py; discover and                *)
(* import_contact_pin in src/endpoint/client_core.py.                      *)
(*                                                                         *)
(* A contact pins a route (server and client_ref) to a key.  It is kept in *)
(* a file of its own and in the index, and a pin counts only if both agree.*)
(* Both are written in place: opened, which empties them, then filled.  A  *)
(* command that dies in between leaves a file nobody can read: Torn.       *)
(*                                                                         *)
(* contact_pins.json, identities.json, routes.json and the identity files  *)
(* are left out: no command reads them, but for a warning.                 *)
(***************************************************************************)
EXTENDS Integers, FiniteSets

CONSTANTS
    Route,     \* server_url and client_ref of those who are written to
    KeysAt,    \* the fingerprints a discovery of a route may come back with
    Sender,    \* processes for `send', and
    Writer,    \* for the commands that write contacts: as many of each may
               \* be under way at once
    MaxFails,  \* bound: how often import_contact_pin raises
    MaxDeaths, \* bound: how often a command dies
    Null,
    Torn

Key == UNION {KeysAt[r] : r \in Route}

ASSUME ContactsAssumption ==
    /\ Null \notin Key
    /\ Torn \notin Key \cup {Null} \cup [Route -> Key \cup {Null}]
    /\ Sender \cap Writer = {}
    /\ MaxFails \in Nat
    /\ MaxDeaths \in Nat

VARIABLES
    contact, \* the contact file of each route
    index,   \* index.json; a missing file and an empty index are the same
    cmd,     \* what each process is doing
    vouched, \* history: the keys the user has vouched for, see below
    spoiled, \* history: the routes whose import a command died on
    fails,
    deaths

history == <<vouched, spoiled>>
bounds  == <<fails, deaths>>
vars    == <<contact, index, cmd, history, bounds>>

Proc == Sender \cup Writer

Pin == Key \cup {Null}

None == [r \in Route |-> Null]

(* op, and the step it is at; half a write; the route and the key it is    *)
(* about; what the contact file and the index were when an import began;   *)
(* history: the keys vouched for when it read or wrote the contact first.  *)
Command ==
    [op : {"import", "discover", "send"},
     at : {"index", "file", "ask", "use", "put", "load", "list", "pin", "undo", "unlist"},
     half : BOOLEAN, route : Route, key : Pin,
     was : Pin \cup {Torn}, base : [Route -> Pin], known : SUBSET Key]

ASSUME NullIsNoCommand == Null \notin Command

Begin(op, at, r, k) ==
    [op |-> op, at |-> at, half |-> FALSE, route |-> r, key |-> k,
     was |-> Null, base |-> None, known |-> {}]

Goto(p, c) == cmd' = [cmd EXCEPT ![p] = c]

End(p) == Goto(p, Null)

Step(p, at) == Goto(p, [cmd[p] EXCEPT !.at = at])

At(p, at) == cmd[p] # Null /\ cmd[p].at = at

(* Opening a file to write it, or filling it and going on.                 *)
Half(p) == Goto(p, [cmd[p] EXCEPT !.half = TRUE])

-----------------------------------------------------------------------------
(* Looking a contact up, and discovering the identity on its route.        *)

(* send or discover, the latter perhaps with an expected fingerprint.      *)
StartSend(p, r) ==
    /\ cmd[p] = Null
    /\ Goto(p, Begin("send", "index", r, Null))
    /\ UNCHANGED <<contact, index, history, bounds>>

StartDiscover(p, r, expected) ==
    /\ cmd[p] = Null
    /\ Goto(p, Begin("discover", "index", r, expected))
    /\ UNCHANGED <<contact, index, history, bounds>>

(* Variation: an index that cannot be read pins nothing.                   *)
PinnedOrNot(c) == IF index = Torn THEN {Null} ELSE {index[c.route]}

(* What the index, if it can be read, pins the route to.                   *)
Pinned(c) == IF index = Torn THEN {} ELSE {index[c.route]}

(* _load_contact_by_route: only for a route in the index there is a file   *)
(* to look at.  An expected fingerprint has to be that of the pin.         *)
LookUp(p) ==
    /\ At(p, "index")
    /\ LET c == [cmd[p] EXCEPT !.known = vouched[cmd[p].route]] IN
       \/ \E pin \in Pinned(c) :
             \/ pin = Null /\ Goto(p, [c EXCEPT !.at = "ask"])
             \/ /\ pin # Null
                /\ c.key \in {Null, pin}
                /\ Goto(p, [c EXCEPT !.at = "file", !.key = pin])
             \/ pin # Null /\ c.key \notin {Null, pin} /\ End(p)
       \/ Pinned(c) = {} /\ End(p)
    /\ UNCHANGED <<contact, index, history, bounds>>

(* The contact file has to say the same.                                   *)
ReadContact(p) ==
    /\ At(p, "file")
    /\ IF contact[cmd[p].route] = cmd[p].key THEN Step(p, "ask") ELSE End(p)
    /\ UNCHANGED <<contact, index, history, bounds>>

(* EndpointClient.discover fails, or comes back with whatever identity the *)
(* servers have; if a fingerprint is expected, with that one only.  A send *)
(* uses it, and discover remembers the contact if one was expected.        *)
Discovered(p) ==
    /\ At(p, "ask")
    /\ LET c == cmd[p] IN
       \/ \E k \in KeysAt[c.route] :
             /\ c.op = "send"
             /\ c.key \in {Null, k}
             /\ Goto(p, [c EXCEPT !.at = "use", !.key = k])
       \/ c.op = "discover" /\ c.key \in KeysAt[c.route] /\ Step(p, "put")
       \/ End(p)
    /\ UNCHANGED <<contact, index, history, bounds>>

(* send_message seals the message for the key.                             *)
SendMessage(p) ==
    /\ At(p, "use")
    /\ End(p)
    /\ UNCHANGED <<contact, index, history, bounds>>

-----------------------------------------------------------------------------
(* _remember_contact, for an import or after a discovery that matched.     *)

StartImport(p, r, k) ==
    /\ cmd[p] = Null
    /\ Goto(p, Begin("import", "put", r, k))
    /\ UNCHANGED <<contact, index, history, bounds>>

(* Variation: a contact that is there already is kept.                     *)
OldContact(c) == IF c.was = Null THEN c.key ELSE c.was

NewContact(c) == c.key

(* The user vouches for the key: if the route was pinned, old and new key  *)
(* are both good until the import is through.                              *)
PutContact(p) ==
    /\ At(p, "put")
    /\ LET c == cmd[p] IN
       IF ~ c.half
       THEN /\ contact' = [contact EXCEPT ![c.route] = Torn]
            /\ vouched' = [vouched EXCEPT ![c.route] = IF @ = {} THEN @ ELSE @ \cup {c.key}]
            /\ Goto(p, [c EXCEPT !.half = TRUE, !.was = contact[c.route],
                                 !.known = vouched[c.route]])
       ELSE /\ contact' = [contact EXCEPT ![c.route] = NewContact(c)]
            /\ Goto(p, [c EXCEPT !.at = "load", !.half = FALSE])
            /\ UNCHANGED vouched
    /\ UNCHANGED <<index, spoiled, bounds>>

(* Variation: an index that cannot be read is taken as it is.              *)
LoadAnyIndex(p) ==
    /\ At(p, "load")
    /\ Goto(p, [cmd[p] EXCEPT !.at = "list", !.base = index])
    /\ UNCHANGED <<contact, index, history, bounds>>

(* Only now is the index read: if that fails, the contact stays.           *)
LoadIndex(p) ==
    /\ At(p, "load")
    /\ IF index = Torn THEN End(p) ELSE Goto(p, [cmd[p] EXCEPT !.at = "list", !.base = index])
    /\ UNCHANGED <<contact, index, history, bounds>>

SaveIndex(p) ==
    /\ At(p, "list")
    /\ LET c == cmd[p] IN
       IF ~ c.half
       THEN index' = Torn /\ Half(p)
       ELSE /\ index' = [c.base EXCEPT ![c.route] = c.key]
            /\ Goto(p, [c EXCEPT !.at = "pin", !.half = FALSE])
    /\ UNCHANGED <<contact, history, bounds>>

(* import_contact_pin writes the state directory, and the import is through.*)
ImportPin(p) ==
    /\ At(p, "pin")
    /\ vouched' = [vouched EXCEPT ![cmd[p].route] = {cmd[p].key}]
    /\ spoiled' = spoiled \ {cmd[p].route}
    /\ End(p)
    /\ UNCHANGED <<contact, index, bounds>>

(* It raises.                                                              *)
ImportPinFails(p) ==
    /\ At(p, "pin")
    /\ fails < MaxFails
    /\ fails' = fails + 1
    /\ Step(p, "undo")
    /\ UNCHANGED <<contact, index, history, deaths>>

(* _rollback_contact_import: the file first, then the index; what was not  *)
(* there is unlinked.                                                      *)
RestoreContact(p) ==
    /\ At(p, "undo")
    /\ LET c == cmd[p] IN
       IF ~ c.half /\ c.was # Null
       THEN contact' = [contact EXCEPT ![c.route] = Torn] /\ Half(p)
       ELSE /\ contact' = [contact EXCEPT ![c.route] = c.was]
            /\ Goto(p, [c EXCEPT !.at = "unlist", !.half = FALSE])
    /\ UNCHANGED <<index, history, bounds>>

(* Variation: the entry is dropped, whatever it was before.                *)
Dropped(c) == [c.base EXCEPT ![c.route] = Null]

Before(c) == c.base

RestoreIndex(p) ==
    /\ At(p, "unlist")
    /\ LET c == cmd[p] IN
       IF ~ c.half /\ c.base # None
       THEN index' = Torn /\ Half(p) /\ UNCHANGED vouched
       ELSE /\ index' = Before(c)
            /\ vouched' = [vouched EXCEPT ![c.route] = c.known]
            /\ End(p)
    /\ UNCHANGED <<contact, spoiled, bounds>>

(* The process dies, or a write fails where nothing is undone: what it has *)
(* opened stays empty.  A send that dies leaves nothing behind.            *)
Die(p) ==
    /\ cmd[p] # Null
    /\ deaths < MaxDeaths
    /\ deaths' = deaths + 1
    /\ spoiled' = spoiled \cup {cmd[p].route}
    /\ End(p)
    /\ UNCHANGED <<contact, index, vouched, fails>>

-----------------------------------------------------------------------------

Init ==
    /\ contact = None
    /\ index = None
    /\ cmd = [p \in Proc |-> Null]
    /\ vouched = [r \in Route |-> {}]
    /\ spoiled = {}
    /\ fails = 0
    /\ deaths = 0

GoOn(p) ==
    \/ LookUp(p) \/ ReadContact(p) \/ Discovered(p)
    \/ SendMessage(p)
    \/ PutContact(p) \/ LoadIndex(p) \/ SaveIndex(p) \/ ImportPin(p)
    \/ RestoreContact(p) \/ RestoreIndex(p)

Next ==
    \/ \E r \in Route : \/ \E p \in Sender : StartSend(p, r)
                        \/ \E p \in Writer, k \in KeysAt[r] \cup {Null} : StartDiscover(p, r, k)
                        \/ \E p \in Writer, k \in KeysAt[r] : StartImport(p, r, k)
    \/ \E p \in Proc : GoOn(p)
    \/ \E p \in Writer : ImportPinFails(p) \/ Die(p)

Spec == Init /\ [][Next]_vars

(* A command that runs goes on, and the user imports every contact again   *)
(* and again.                                                              *)
Fairness ==
    /\ \A p \in Proc : WF_vars(GoOn(p))
    /\ \A r \in Route : SF_vars(\E p \in Writer, k \in KeysAt[r] : StartImport(p, r, k))

FairSpec == Spec /\ Fairness

-----------------------------------------------------------------------------
(* Correctness.                                                            *)

(* Every variable has its type.                                            *)
TypeOK ==
    /\ contact \in [Route -> Pin \cup {Torn}]
    /\ index \in [Route -> Pin] \cup {Torn}
    /\ cmd \in [Proc -> Command \cup {Null}]
    /\ vouched \in [Route -> SUBSET Key]
    /\ spoiled \subseteq Route
    /\ fails \in 0..MaxFails
    /\ deaths \in 0..MaxDeaths

(* Once a contact has been imported, a message on its route is sealed for  *)
(* the key the user vouched for: that of the last import, or of one begun  *)
(* since.  No import that fails, is undone or dies half-way, and no file   *)
(* read while it is written, makes a send fall back to whatever key the    *)
(* servers come back with.                                                 *)
PinsHold ==
    \A p \in Proc : At(p, "use") /\ cmd[p].known # {} => cmd[p].key \in cmd[p].known

(* While nobody writes, the index and the contact files agree: an import   *)
(* that failed was undone in both, and one that died spoiled no route but  *)
(* its own, which the next import makes good.                              *)
ContactsAgree ==
    index # Torn /\ (\A p \in Writer : cmd[p] = Null) =>
        \A r \in Route \ spoiled : contact[r] = index[r]

(* A contact that is imported again and again gets pinned, whatever failed *)
(* or died before; except that an index left torn stops every import.      *)
PinnedInTheEnd ==
    \A r \in Route :
        \/ <>[](index = Torn)
        \/ []<>(index # Torn /\ index[r] # Null /\ contact[r] = index[r])

=============================================================================
