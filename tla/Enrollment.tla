----------------------------- MODULE Enrollment -----------------------------
(***************************************************************************)
(* Setting up a host and taking in clients: `endpoint setup host-init',    *)
(* invite, join, enroll and run, and the key store they create.            *)
(*                                                                         *)
(* Code: _cmd_setup_* and the zip helpers in src/endpoint/cli.py,          *)
(* OpenPgpContext in src/endpoint/crypto.py, ensure_identity in            *)
(* src/endpoint/client_core.py, load_server_config in                      *)
(* src/endpoint/config.py, authenticate_client in                          *)
(* src/endpoint/server_core.py.                                            *)
(*                                                                         *)
(* A command is a chain of file writes; a step is one of them, with the    *)
(* reads and checks that follow it.  It may be interrupted before any of   *)
(* them, or in the middle, which leaves a file nobody can read: Null.  The *)
(* host runs one command at a time, and each guest joins in one workspace. *)
(***************************************************************************)
EXTENDS Integers, FiniteSets

CONSTANTS
    Owner,      \* the client_ref host-init creates
    Guest,      \* the client_refs that are invited
    MaxAgain,   \* bound: commands that are run though nothing calls for them
    MaxCrashes, \* bound: how often a command is interrupted
    Null

Ref   == {Owner} \cup Guest
Token == Nat
Entry == [key : Nat, token : Token]

OrNull(S) == S \cup {Null}

ASSUME EnrollmentAssumption ==
    /\ Owner \notin Guest
    /\ Null \notin Nat \cup Entry
    /\ Null \notin [Ref -> OrNull(Entry)]
    /\ MaxAgain \in Nat
    /\ MaxCrashes \in Nat

VARIABLES
    cert,     \* the host's certificate, and
    ca,       \* the CA file beside it, each named by the host-init it is from
    doc,      \* whether workspace.json can be read
    config,   \* server.json: for each client its identity and token hash
    pending,  \* pending-invites: the token hash of each guest
    running,  \* what the running server has loaded
    keys,     \* each client's key store: three files, each of some key
    profile,  \* each client's profile.json: its token
    trusts,   \* each guest's ca.pem
    invites,  \* the invite zips handed out
    bundles,  \* the enrollment zips handed back
    host,     \* the command on the host
    join,     \* each guest's `setup join'
    drawn,    \* how many tokens have been drawn
    again,
    crashes

tlsVars    == <<cert, ca>>
hostFiles  == <<doc, config, pending>>
guestFiles == <<profile, trusts>>
zips       == <<invites, bundles>>
bounds     == <<again, crashes>>
vars == <<tlsVars, hostFiles, running, keys, guestFiles, zips, host, join,
          drawn, bounds>>

KeyFile == {"secret", "public", "raw"}
Invite  == [ref : Guest, token : Token, ca : OrNull(Nat)]
Bundle  == [ref : Guest, key : Nat]

Idle == [step |-> "none", ref |-> Owner, token |-> 0, key |-> 0]

-----------------------------------------------------------------------------
(* The key store.                                                          *)

HasMaterial(r) == \E f \in KeyFile : keys[r][f] # 0

(* current_fingerprint: all three are there, and the fingerprint on file   *)
(* is the public key's.                                                    *)
Complete(r) ==
    /\ \A f \in KeyFile : keys[r][f] # 0
    /\ keys[r].raw = keys[r].public

(* Left by a command that died between two of the files: no command will   *)
(* use it, replace it or remove it.                                        *)
Broken(r) == HasMaterial(r) /\ ~ Complete(r)

(* Variation: a key store is made anew each time.                          *)
EnsureIdentityAnew(r) == "secret"

(* ensure_identity: where a command goes on.  With a key it has, or at the *)
(* first file of a new one; what is incomplete ends it.                    *)
EnsureIdentity(r) ==
    CASE Complete(r) -> "profile" [] Broken(r) -> "none" [] OTHER -> "secret"

(* generate_identity: secret key, public key, fingerprint, in this order.  *)
WriteKeyFile(r, f) ==
    keys' = [keys EXCEPT ![r][f] =
                IF f = "secret" THEN keys[r].secret + 1 ELSE keys[r].secret]

AfterKeyFile(f) ==
    CASE f = "secret" -> "public" [] f = "public" -> "raw" [] f = "raw" -> "profile"

-----------------------------------------------------------------------------
(* What calls for a command: something a client needs is missing.          *)

Newest(r) ==
    LET mine == {i \in invites : i.ref = r}
    IN  IF mine = {} THEN Null ELSE CHOOSE i \in mine : \A k \in mine : k.token <= i.token

Hosted(r) == config # Null /\ config[r] # Null

InitDue ==
    /\ ~ Broken(Owner)
    /\ ~ /\ doc
         /\ cert # Null
         /\ cert = ca
         /\ Hosted(Owner)
         /\ config[Owner].token = profile[Owner]

InviteDue(r) ==
    ~ /\ Newest(r) # Null
      /\ Newest(r).ca = ca
      /\ \/ Newest(r).token = pending[r]
         \/ Hosted(r) /\ config[r].token = Newest(r).token

JoinDue(r) ==
    /\ Newest(r) # Null
    /\ ~ Broken(r)
    /\ \/ profile[r] # Newest(r).token
       \/ trusts[r] # Newest(r).ca
       \/ [ref |-> r, key |-> keys[r].public] \notin bundles

MayRun(due) ==
    \/ due /\ UNCHANGED again
    \/ ~ due /\ again < MaxAgain /\ again' = again + 1

-----------------------------------------------------------------------------
(* The host.                                                               *)

HostGoto(s) == host' = IF s = "none" THEN Idle ELSE [host EXCEPT !.step = s]

StartInit ==
    /\ host = Idle
    /\ MayRun(InitDue)
    /\ drawn' = drawn + 1
    /\ host' = [Idle EXCEPT !.step = "cert", !.token = drawn']
    /\ UNCHANGED <<tlsVars, hostFiles, running, keys, guestFiles, zips, join, crashes>>

InitCert ==
    /\ host.step = "cert"
    /\ cert' = host.token
    /\ HostGoto("ca")
    /\ UNCHANGED <<ca, hostFiles, running, keys, guestFiles, zips, join, drawn, bounds>>

InitCa ==
    /\ host.step = "ca"
    /\ ca' = host.token
    /\ HostGoto(EnsureIdentity(Owner))
    /\ UNCHANGED <<cert, hostFiles, running, keys, guestFiles, zips, join, drawn, bounds>>

InitKeys ==
    /\ host.step \in KeyFile
    /\ WriteKeyFile(Owner, host.step)
    /\ HostGoto(AfterKeyFile(host.step))
    /\ UNCHANGED <<tlsVars, hostFiles, running, guestFiles, zips, join, drawn, bounds>>

InitProfile ==
    /\ host.step = "profile"
    /\ profile' = [profile EXCEPT ![Owner] = host.token]
    /\ HostGoto("config")
    /\ UNCHANGED <<tlsVars, hostFiles, running, keys, trusts, zips, join, drawn, bounds>>

(* A new server.json, with the owner as its only client.                   *)
InitConfig ==
    /\ host.step = "config"
    /\ config' = [r \in Ref |-> IF r = Owner
                                  THEN [key |-> keys[Owner].public, token |-> host.token]
                                  ELSE Null]
    /\ HostGoto("doc")
    /\ UNCHANGED <<tlsVars, doc, pending, running, keys, guestFiles, zips, join, drawn, bounds>>

InitDoc ==
    /\ host.step = "doc"
    /\ doc' = TRUE
    /\ HostGoto("none")
    /\ UNCHANGED <<tlsVars, config, pending, running, keys, guestFiles, zips, join, drawn, bounds>>

StartInvite(r) ==
    /\ host = Idle
    /\ doc
    /\ MayRun(InviteDue(r))
    /\ drawn' = drawn + 1
    /\ host' = [Idle EXCEPT !.step = "pending", !.ref = r, !.token = drawn']
    /\ UNCHANGED <<tlsVars, hostFiles, running, keys, guestFiles, zips, join, crashes>>

InvitePending ==
    /\ host.step = "pending"
    /\ pending' = [pending EXCEPT ![host.ref] = host.token]
    /\ HostGoto("zip")
    /\ UNCHANGED <<tlsVars, doc, config, running, keys, guestFiles, zips, join, drawn, bounds>>

InviteZip ==
    /\ host.step = "zip"
    /\ invites' = invites \cup {[ref |-> host.ref, token |-> host.token, ca |-> ca]}
    /\ HostGoto("none")
    /\ UNCHANGED <<tlsVars, hostFiles, running, keys, guestFiles, bundles, join, drawn, bounds>>

(* Variation: the pending invite is removed before server.json is written. *)
StartEnrollSpent(b) ==
    /\ host = Idle
    /\ doc
    /\ pending[b.ref] # Null
    /\ config # Null
    /\ host' = [step |-> "enroll", ref |-> b.ref, token |-> pending[b.ref], key |-> b.key]
    /\ pending' = [pending EXCEPT ![b.ref] = Null]
    /\ UNCHANGED <<tlsVars, doc, config, running, keys, guestFiles, zips, join, drawn, bounds>>

(* enroll takes the identity from the bundle and the token hash from the   *)
(* pending invite, whichever invite the bundle answers.                    *)
StartEnroll(b) ==
    /\ host = Idle
    /\ doc
    /\ pending[b.ref] # Null
    /\ config # Null
    /\ host' = [step |-> "enroll", ref |-> b.ref, token |-> pending[b.ref], key |-> b.key]
    /\ UNCHANGED <<tlsVars, hostFiles, running, keys, guestFiles, zips, join, drawn, bounds>>

WithEntry(r, entry) == [config EXCEPT ![r] = entry]

EnrollConfig ==
    /\ host.step = "enroll"
    /\ config' = WithEntry(host.ref, [key |-> host.key, token |-> host.token])
    /\ HostGoto("unlink")
    /\ UNCHANGED <<tlsVars, doc, pending, running, keys, guestFiles, zips, join, drawn, bounds>>

EnrollUnlink ==
    /\ host.step = "unlink"
    /\ pending' = [pending EXCEPT ![host.ref] = Null]
    /\ HostGoto("none")
    /\ UNCHANGED <<tlsVars, doc, config, running, keys, guestFiles, zips, join, drawn, bounds>>

(* The command dies; a file it is writing is whole or cut short.           *)
HostCrash ==
    /\ host # Idle
    /\ crashes < MaxCrashes
    /\ crashes' = crashes + 1
    /\ host' = Idle
    /\ \E torn \in BOOLEAN :
          LET Left(steps, value, cut) == IF torn /\ host.step \in steps THEN cut ELSE value
          IN  /\ doc' = Left({"doc"}, doc, FALSE)
              /\ cert' = Left({"cert"}, cert, Null)
              /\ ca' = Left({"ca"}, ca, Null)
              /\ config' = Left({"config", "enroll"}, config, Null)
              /\ pending' = [pending EXCEPT ![host.ref] = Left({"pending"}, @, Null)]
              /\ profile' = [profile EXCEPT ![Owner] = Left({"profile"}, @, Null)]
    /\ UNCHANGED <<running, keys, trusts, zips, join, drawn, again>>

(* `setup run', once the server that ran before has been stopped: one that  *)
(* cannot read what it needs does not come up.                             *)
(* Variation: it comes up all the same.                                    *)
StartAnyway == [config |-> config, cert |-> cert]

Start == IF doc /\ config # Null /\ cert # Null
           THEN [config |-> config, cert |-> cert]
           ELSE Null

Restart ==
    /\ running # Start
    /\ running' = Start
    /\ UNCHANGED <<tlsVars, hostFiles, keys, guestFiles, zips, host, join, drawn, bounds>>

-----------------------------------------------------------------------------
(* The guests.                                                             *)

Out == [step |-> "none", invite |-> Null]

JoinGoto(r, s) ==
    join' = [join EXCEPT ![r] = IF s = "none" THEN Out ELSE [@ EXCEPT !.step = s]]

StartJoin(r, i) ==
    /\ join[r] = Out
    /\ i.ref = r
    /\ MayRun(i = Newest(r) /\ JoinDue(r))
    /\ join' = [join EXCEPT ![r] = [step |-> "ca", invite |-> i]]
    /\ UNCHANGED <<tlsVars, hostFiles, running, keys, guestFiles, zips, host, drawn, crashes>>

JoinCa(r) ==
    /\ join[r].step = "ca"
    /\ trusts' = [trusts EXCEPT ![r] = join[r].invite.ca]
    /\ JoinGoto(r, EnsureIdentity(r))
    /\ UNCHANGED <<tlsVars, hostFiles, running, keys, profile, zips, host, drawn, bounds>>

JoinKeys(r) ==
    /\ join[r].step \in KeyFile
    /\ WriteKeyFile(r, join[r].step)
    /\ JoinGoto(r, AfterKeyFile(join[r].step))
    /\ UNCHANGED <<tlsVars, hostFiles, running, guestFiles, zips, host, drawn, bounds>>

(* Variation: a profile that is there stays as it is.                      *)
NewTokenKeepsOld(r) == IF profile[r] = Null THEN join[r].invite.token ELSE profile[r]

NewToken(r) == join[r].invite.token

JoinProfile(r) ==
    /\ join[r].step = "profile"
    /\ profile' = [profile EXCEPT ![r] = NewToken(r)]
    /\ JoinGoto(r, "bundle")
    /\ UNCHANGED <<tlsVars, hostFiles, running, keys, trusts, zips, host, drawn, bounds>>

JoinBundle(r) ==
    /\ join[r].step = "bundle"
    /\ bundles' = bundles \cup {[ref |-> r, key |-> keys[r].public]}
    /\ JoinGoto(r, "none")
    /\ UNCHANGED <<tlsVars, hostFiles, running, keys, guestFiles, invites, host, drawn, bounds>>

JoinCrash(r) ==
    /\ join[r] # Out
    /\ crashes < MaxCrashes
    /\ crashes' = crashes + 1
    /\ join' = [join EXCEPT ![r] = Out]
    /\ \E torn \in BOOLEAN :
          LET Left(step, value) == IF torn /\ join[r].step = step THEN Null ELSE value
          IN  /\ trusts' = [trusts EXCEPT ![r] = Left("ca", @)]
              /\ profile' = [profile EXCEPT ![r] = Left("profile", @)]
    /\ UNCHANGED <<tlsVars, hostFiles, running, keys, zips, host, drawn, again>>

-----------------------------------------------------------------------------

Init ==
    /\ cert = Null
    /\ ca = Null
    /\ doc = FALSE
    /\ config = Null
    /\ pending = [r \in Ref |-> Null]
    /\ running = Null
    /\ keys = [r \in Ref |-> [f \in KeyFile |-> 0]]
    /\ profile = [r \in Ref |-> Null]
    /\ trusts = [r \in Ref |-> Null]
    /\ invites = {}
    /\ bundles = {}
    /\ host = Idle
    /\ join = [r \in Guest |-> Out]
    /\ drawn = 0
    /\ again = 0
    /\ crashes = 0

HostGoesOn ==
    \/ InitCert \/ InitCa \/ InitKeys \/ InitProfile \/ InitConfig \/ InitDoc
    \/ InvitePending \/ InviteZip
    \/ EnrollConfig \/ EnrollUnlink

JoinGoesOn(r) == JoinCa(r) \/ JoinKeys(r) \/ JoinProfile(r) \/ JoinBundle(r)

Next ==
    \/ StartInit
    \/ \E r \in Guest : \/ StartInvite(r)
                        \/ \E i \in invites : StartJoin(r, i)
                        \/ JoinGoesOn(r)
                        \/ JoinCrash(r)
    \/ \E b \in bundles : StartEnroll(b)
    \/ HostGoesOn
    \/ HostCrash
    \/ Restart

Spec == Init /\ [][Next]_vars

(* Whoever sees that something is missing runs, or runs again, the command *)
(* that provides it; a command that is running goes on.                    *)
Fairness ==
    /\ WF_vars(HostGoesOn)
    /\ WF_vars(Restart)
    /\ SF_vars(InitDue /\ StartInit)
    /\ \A r \in Guest :
          /\ WF_vars(JoinGoesOn(r))
          /\ SF_vars(InviteDue(r) /\ StartInvite(r))
          /\ SF_vars(JoinDue(r) /\ \E i \in invites : i = Newest(r) /\ StartJoin(r, i))
          /\ SF_vars(\E b \in bundles : b.ref = r /\ StartEnroll(b))

FairSpec == Spec /\ Fairness

-----------------------------------------------------------------------------
(* Correctness.                                                            *)

HostStep == KeyFile \cup {"none", "cert", "ca", "profile", "config", "doc",
                          "pending", "zip", "enroll", "unlink"}

(* Every variable has its type.                                            *)
TypeOK ==
    /\ cert \in OrNull(Nat) /\ ca \in OrNull(Nat)
    /\ doc \in BOOLEAN
    /\ config \in OrNull([Ref -> OrNull(Entry)])
    /\ pending \in [Ref -> OrNull(Token)]
    /\ running \in OrNull([config : [Ref -> OrNull(Entry)], cert : Nat])
    /\ keys \in [Ref -> [KeyFile -> Nat]]
    /\ profile \in [Ref -> OrNull(Token)]
    /\ trusts \in [Ref -> OrNull(Nat)]
    /\ invites \subseteq Invite
    /\ bundles \subseteq Bundle
    /\ host \in [step : HostStep, ref : Ref, token : Token, key : Nat]
    /\ join \in [Guest -> [step : KeyFile \cup {"none", "ca", "profile", "bundle"},
                           invite : OrNull(Invite)]]
    /\ drawn \in Nat
    /\ again \in 0..MaxAgain
    /\ crashes \in 0..MaxCrashes

(* Whoever a server hosts, now or after a restart, is hosted under the key *)
(* in its own key store, and that store is whole: commands that were run   *)
(* again, died or crossed each other never publish a key nobody can use.   *)
HostedKeyIsHeld ==
    \A r \in Ref :
        /\ Hosted(r) => Complete(r) /\ config[r].key = keys[r].public
        /\ running # Null /\ running.config[r] # Null =>
              Complete(r) /\ running.config[r].key = keys[r].public

(* An invite's token leaves pending-invites only once server.json holds    *)
(* it, or for a newer invite (which a crash may tear); and while a guest   *)
(* stays hosted its token never goes back to an older invite's.  So an     *)
(* enroll that dies anywhere loses no invite, and one that is run again,   *)
(* or for a bundle that answers an older invite, brings no old token back. *)
TokensMoveOn ==
    [][\A r \in Guest :
          /\ pending[r] # Null /\ pending'[r] # pending[r] =>
                 host.step = "pending" \/ (Hosted(r) /\ config[r].token = pending[r])
          /\ Hosted(r) /\ Hosted(r)' => config[r].token <= config'[r].token]_vars

(* The client gets in: the server that runs takes its token, hosts its     *)
(* identity, and shows a certificate it trusts.                            *)
GetsIn(r) ==
    /\ running # Null
    /\ running.config[r] # Null
    /\ running.config[r].token = profile[r]
    /\ running.cert = IF r = Owner THEN ca ELSE trusts[r]
    /\ Complete(r)

(* Interrupted and repeated commands can always be made good by running    *)
(* commands again: in the end everyone gets in, and stays in, unless a key *)
(* store was left broken.                                                  *)
EveryoneGetsIn ==
    \A r \in Ref : <>[](GetsIn(r) \/ Broken(r) \/ Broken(Owner))

=============================================================================
