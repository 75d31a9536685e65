-------------------------- MODULE EnrollmentProofs --------------------------
(***************************************************************************)
(* Proofs about Enrollment, for any guests and bounds: no server ever      *)
(* hosts a client under a key that the client's key store does not hold,   *)
(* and no pending token is given up before server.json holds it.           *)
(***************************************************************************)
EXTENDS Enrollment, TLAPS

USE DEF OrNull, Token, KeyFile, Entry, Invite, Bundle, Ref

(* How far a key store has got, for a command that is at this step.        *)
KeysAreAt(r, step) ==
    /\ step = "secret" => keys[r].secret = 0 /\ keys[r].public = 0 /\ keys[r].raw = 0
    /\ step = "public" => keys[r].secret # 0 /\ keys[r].public = 0 /\ keys[r].raw = 0
    /\ step = "raw" => /\ keys[r].secret # 0
                       /\ keys[r].public = keys[r].secret
                       /\ keys[r].raw = 0
    /\ step \in {"profile", "config", "doc", "bundle"} => Complete(r)

(* host-init is about the owner, the other commands are about a guest, and *)
(* enroll has read server.json and holds a key from a bundle.              *)
HostIsRight ==
    /\ host.step \in KeyFile \cup {"cert", "ca", "profile", "config", "doc"} =>
          host.ref = Owner /\ KeysAreAt(Owner, host.step)
    /\ host.step \in {"pending", "zip", "enroll", "unlink"} => host.ref \in Guest
    /\ host.step = "enroll" =>
          config # Null /\ Complete(host.ref) /\ host.key = keys[host.ref].public

JoinIsRight ==
    \A r \in Guest :
        /\ join[r].step # "none" => join[r].invite \in Invite
        /\ KeysAreAt(r, join[r].step)

BundlesAreHeld ==
    \A b \in bundles : Complete(b.ref) /\ b.key = keys[b.ref].public

IInv ==
    /\ TypeOK
    /\ HostIsRight
    /\ JoinIsRight
    /\ BundlesAreHeld
    /\ HostedKeyIsHeld

-----------------------------------------------------------------------------
(* The key store.                                                          *)

LEMMA CompleteFacts ==
    ASSUME NEW r \in Ref
    PROVE  Complete(r) <=> /\ keys[r].secret # 0
                           /\ keys[r].public # 0
                           /\ keys[r].raw # 0
                           /\ keys[r].raw = keys[r].public
  BY DEF Complete

LEMMA EnsureIdentityFacts ==
    ASSUME NEW r \in Ref
    PROVE  /\ EnsureIdentity(r) \in {"profile", "none", "secret"}
           /\ KeysAreAt(r, EnsureIdentity(r))
  BY CompleteFacts DEF EnsureIdentity, KeysAreAt, Broken, HasMaterial

(* A key file is written: the store was not complete, it is one file       *)
(* further, and no other store has changed.                                *)
LEMMA KeyStep ==
    ASSUME TypeOK, NEW r \in Ref, NEW f \in KeyFile, KeysAreAt(r, f), WriteKeyFile(r, f)
    PROVE  /\ keys' \in [Ref -> [KeyFile -> Nat]]
           /\ ~ Complete(r)
           /\ AfterKeyFile(f) \in {"public", "raw", "profile"}
           /\ KeysAreAt(r, AfterKeyFile(f))'
           /\ \A s \in Ref : s # r => keys'[s] = keys[s]
<1>1. keys[r] \in [KeyFile -> Nat]
  BY DEF TypeOK
<1>2. ~ Complete(r)
  BY CompleteFacts DEF KeysAreAt
<1> DEFINE new == IF f = "secret" THEN keys[r].secret + 1 ELSE keys[r].secret
<1>3. new \in Nat /\ (KeysAreAt(r, f) => new # 0)
  BY <1>1 DEF KeysAreAt
<1>4. keys' = [keys EXCEPT ![r] = [keys[r] EXCEPT ![f] = new]]
  BY DEF WriteKeyFile, TypeOK
<1> HIDE DEF new
<1>5. /\ keys' \in [Ref -> [KeyFile -> Nat]]
      /\ keys'[r] = [keys[r] EXCEPT ![f] = new]
      /\ \A s \in Ref : s # r => keys'[s] = keys[s]
  BY <1>1, <1>3, <1>4 DEF TypeOK
<1>6. KeysAreAt(r, AfterKeyFile(f))'
  <2>1. /\ f = "secret" => keys'[r].secret = new
        /\ f # "secret" => keys'[r].secret = keys[r].secret /\ new = keys[r].secret
        /\ f = "public" => keys'[r].public = new
        /\ f # "public" => keys'[r].public = keys[r].public
        /\ f = "raw" => keys'[r].raw = new
        /\ f # "raw" => keys'[r].raw = keys[r].raw
    BY <1>1, <1>5 DEF new
  <2>2. Complete(r)' <=> /\ keys'[r].secret # 0
                         /\ keys'[r].public # 0
                         /\ keys'[r].raw # 0
                         /\ keys'[r].raw = keys'[r].public
    BY DEF Complete
  <2> QED  BY <1>3, <2>1, <2>2 DEF KeysAreAt, AfterKeyFile
<1> QED  BY <1>2, <1>5, <1>6 DEF AfterKeyFile

-----------------------------------------------------------------------------

LEMMA InitIInv == Init => IInv
<1> SUFFICES ASSUME Init PROVE IInv
  OBVIOUS
<1> USE EnrollmentAssumption DEF Init
<1>1. TypeOK
  <2>1. keys \in [Ref -> [KeyFile -> Nat]]
    OBVIOUS
  <2>2. host \in [step : HostStep, ref : Ref, token : Token, key : Nat]
    BY DEF Idle, HostStep
  <2>3. join \in [Guest -> [step : KeyFile \cup {"none", "ca", "profile", "bundle"},
                           invite : OrNull(Invite)]]
    BY DEF Out
  <2>4. again \in 0..MaxAgain /\ crashes \in 0..MaxCrashes
    OBVIOUS
  <2> QED  BY <2>1, <2>2, <2>3, <2>4 DEF TypeOK
<1>2. HostIsRight /\ BundlesAreHeld
  BY DEF HostIsRight, BundlesAreHeld, Idle
<1>3. JoinIsRight
  <2>1. \A r \in Guest : join[r].step = "none"
    BY DEF Out
  <2> QED  BY <2>1 DEF JoinIsRight, KeysAreAt
<1>4. HostedKeyIsHeld
  BY DEF HostedKeyIsHeld, Hosted
<1> QED  BY <1>1, <1>2, <1>3, <1>4 DEF IInv

(* A step that leaves the key stores alone.                                *)
LEMMA SameKeys ==
    ASSUME keys' = keys
    PROVE  /\ \A r : Complete(r)' <=> Complete(r)
           /\ \A r, step : KeysAreAt(r, step)' <=> KeysAreAt(r, step)
  BY DEF Complete, KeysAreAt

LEMMA NextTypeOK == IInv /\ [Next]_vars => TypeOK'
<1> SUFFICES ASSUME IInv, [Next]_vars PROVE TypeOK'
  OBVIOUS
<1>0. TypeOK /\ HostIsRight /\ JoinIsRight
  BY DEF IInv
<1> USE <1>0 DEF tlsVars, hostFiles, guestFiles, zips, bounds
<1>1. {host, Idle} \subseteq [step : HostStep, ref : Ref, token : Token, key : Nat]
  BY DEF TypeOK, Idle, HostStep
<1>2. ASSUME NEW s \in HostStep, HostGoto(s)
      PROVE  host' \in [step : HostStep, ref : Ref, token : Token, key : Nat]
  BY <1>1, <1>2 DEF HostGoto
<1>3. ASSUME NEW due, MayRun(due)
      PROVE  again' \in 0..MaxAgain
  BY <1>3, EnrollmentAssumption DEF MayRun, TypeOK
<1>4. CASE StartInit
  <2>1. drawn' \in Nat
    BY <1>4 DEF StartInit, TypeOK
  <2>2. host' \in [step : HostStep, ref : Ref, token : Token, key : Nat]
    BY <1>4, <2>1 DEF StartInit, Idle, HostStep
  <2> QED  BY <1>3, <1>4, <2>1, <2>2 DEF StartInit, TypeOK
<1>5. CASE InitCert
  BY <1>2, <1>4, <1>5, <1>1 DEF InitCert, TypeOK, HostStep
<1>6. CASE InitCa
  <2>1. EnsureIdentity(Owner) \in HostStep
    BY EnsureIdentityFacts DEF HostStep
  <2> QED  BY <1>1, <1>2, <1>6, <2>1 DEF InitCa, TypeOK
<1>7. CASE InitKeys
  <2>1. PICK f \in KeyFile : f = host.step
    BY <1>7 DEF InitKeys
  <2>2. KeysAreAt(Owner, f) /\ WriteKeyFile(Owner, f) /\ HostGoto(AfterKeyFile(f))
    BY <1>7, <2>1 DEF InitKeys, HostIsRight
  <2>3. AfterKeyFile(f) \in HostStep /\ keys' \in [Ref -> [KeyFile -> Nat]]
    BY <2>2, KeyStep DEF HostStep
  <2> QED  BY <1>2, <1>7, <2>2, <2>3 DEF InitKeys, TypeOK
<1>8. CASE InitProfile
  BY <1>1, <1>2, <1>8 DEF InitProfile, TypeOK, HostStep
<1>9. CASE InitConfig
  <2>1. [key |-> keys[Owner].public, token |-> host.token] \in Entry
    BY <1>1 DEF TypeOK
  <2>2. config' \in [Ref -> OrNull(Entry)]
    BY <1>9, <2>1 DEF InitConfig
  <2> QED  BY <1>2, <1>9, <2>2 DEF InitConfig, TypeOK, HostStep
<1>10. CASE InitDoc
  BY <1>2, <1>10 DEF InitDoc, TypeOK, HostStep
<1>11. ASSUME NEW r \in Guest, StartInvite(r) PROVE TypeOK'
  <2>1. drawn' \in Nat
    BY <1>11 DEF StartInvite, TypeOK
  <2>2. host' \in [step : HostStep, ref : Ref, token : Token, key : Nat]
    BY <1>11, <2>1 DEF StartInvite, Idle, HostStep
  <2> QED  BY <1>3, <1>11, <2>1, <2>2 DEF StartInvite, TypeOK
<1>12. CASE InvitePending
  BY <1>1, <1>2, <1>12 DEF InvitePending, TypeOK, HostStep
<1>13. CASE InviteZip
  <2>1. [ref |-> host.ref, token |-> host.token, ca |-> ca] \in Invite
    BY <1>1, <1>13 DEF InviteZip, HostIsRight, TypeOK
  <2> QED  BY <1>2, <1>13, <2>1 DEF InviteZip, TypeOK, HostStep
<1>14. ASSUME NEW b \in bundles, StartEnroll(b) PROVE TypeOK'
  <2>1. b.ref \in Ref /\ b.key \in Nat /\ pending[b.ref] \in Token
    BY <1>14 DEF StartEnroll, TypeOK
  <2> QED  BY <1>14, <2>1 DEF StartEnroll, TypeOK, HostStep
<1>15. CASE EnrollConfig
  <2>1. [key |-> host.key, token |-> host.token] \in Entry
    BY <1>1
  <2>2. config \in [Ref -> OrNull(Entry)]
    BY <1>15 DEF EnrollConfig, HostIsRight, TypeOK
  <2>3. config' \in [Ref -> OrNull(Entry)]
    BY <1>15, <2>1, <2>2 DEF EnrollConfig, WithEntry
  <2> QED  BY <1>2, <1>15, <2>3 DEF EnrollConfig, TypeOK, HostStep
<1>16. CASE EnrollUnlink
  BY <1>2, <1>16 DEF EnrollUnlink, TypeOK, HostStep
<1>17. CASE HostCrash
  <2>1. crashes' \in 0..MaxCrashes
    BY <1>17, EnrollmentAssumption DEF HostCrash, TypeOK
  <2>2. /\ cert' \in {cert, Null} /\ ca' \in {ca, Null}
        /\ doc' \in {doc, FALSE}
        /\ config' \in {config, Null}
        /\ \E x \in {pending[host.ref], Null} : pending' = [pending EXCEPT ![host.ref] = x]
        /\ \E x \in {profile[Owner], Null} : profile' = [profile EXCEPT ![Owner] = x]
    BY <1>17 DEF HostCrash
  <2> QED  BY <1>1, <1>17, <2>1, <2>2 DEF HostCrash, TypeOK
<1>18. CASE Restart
  <2>1. Start \in OrNull([config : [Ref -> OrNull(Entry)], cert : Nat])
    BY DEF Start, TypeOK
  <2> QED  BY <1>18, <2>1 DEF Restart, TypeOK
<1> DEFINE Joining == [step : KeyFile \cup {"none", "ca", "profile", "bundle"}, invite : OrNull(Invite)]
<1>19. /\ join \in [Guest -> Joining]
       /\ Out \in Joining
       /\ \A r \in Guest : join[r].step # "none" => join[r].invite \in Invite
  BY DEF TypeOK, Out, JoinIsRight
<1>20. ASSUME NEW r \in Guest, NEW s \in KeyFile \cup {"none", "ca", "profile", "bundle"}, JoinGoto(r, s)
       PROVE  join' \in [Guest -> Joining]
  BY <1>19, <1>20 DEF JoinGoto
<1>21. ASSUME NEW r \in Guest, NEW i \in invites, StartJoin(r, i) PROVE TypeOK'
  <2>1. join' \in [Guest -> Joining]
    BY <1>19, <1>21 DEF StartJoin, TypeOK
  <2> QED  BY <1>3, <1>21, <2>1 DEF StartJoin, TypeOK
<1>22. ASSUME NEW r \in Guest, JoinCa(r) PROVE TypeOK'
  <2>1. EnsureIdentity(r) \in KeyFile \cup {"none", "ca", "profile", "bundle"}
    BY EnsureIdentityFacts
  <2>2. join' \in [Guest -> Joining] /\ join[r].invite.ca \in OrNull(Nat)
    BY <1>19, <1>20, <1>22, <2>1 DEF JoinCa
  <2> QED  BY <1>22, <2>2 DEF JoinCa, TypeOK
<1>23. ASSUME NEW r \in Guest, JoinKeys(r) PROVE TypeOK'
  <2>1. PICK f \in KeyFile : f = join[r].step
    BY <1>23 DEF JoinKeys
  <2>2. KeysAreAt(r, f) /\ WriteKeyFile(r, f) /\ JoinGoto(r, AfterKeyFile(f))
    BY <1>23, <2>1 DEF JoinKeys, JoinIsRight
  <2>3. AfterKeyFile(f) \in KeyFile \cup {"profile"} /\ keys' \in [Ref -> [KeyFile -> Nat]]
    BY <2>2, KeyStep
  <2>4. join' \in [Guest -> Joining]
    BY <1>20, <2>2, <2>3
  <2> QED  BY <1>23, <2>3, <2>4 DEF JoinKeys, TypeOK
<1>24. ASSUME NEW r \in Guest, JoinProfile(r) PROVE TypeOK'
  <2>1. join' \in [Guest -> Joining] /\ join[r].invite.token \in Token
    BY <1>19, <1>20, <1>24 DEF JoinProfile
  <2> QED  BY <1>24, <2>1 DEF JoinProfile, NewToken, TypeOK
<1>25. ASSUME NEW r \in Guest, JoinBundle(r) PROVE TypeOK'
  <2>1. join' \in [Guest -> Joining]
    BY <1>20, <1>25 DEF JoinBundle
  <2>2. [ref |-> r, key |-> keys[r].public] \in Bundle
    BY DEF TypeOK
  <2> QED  BY <1>25, <2>1, <2>2 DEF JoinBundle, TypeOK
<1>26. ASSUME NEW r \in Guest, JoinCrash(r) PROVE TypeOK'
  <2>1. crashes' \in 0..MaxCrashes
    BY <1>26, EnrollmentAssumption DEF JoinCrash, TypeOK
  <2>2. /\ \E x \in {trusts[r], Null} : trusts' = [trusts EXCEPT ![r] = x]
        /\ \E x \in {profile[r], Null} : profile' = [profile EXCEPT ![r] = x]
    BY <1>26 DEF JoinCrash
  <2>3. join' \in [Guest -> Joining]
    BY <1>19, <1>26 DEF JoinCrash
  <2> QED  BY <1>26, <2>1, <2>2, <2>3 DEF JoinCrash, TypeOK
<1>27. CASE UNCHANGED vars
  BY <1>27 DEF vars, TypeOK
<1> QED
  BY <1>4, <1>5, <1>6, <1>7, <1>8, <1>9, <1>10, <1>11, <1>12, <1>13, <1>14, <1>15, <1>16, <1>17,
     <1>18, <1>21, <1>22, <1>23, <1>24, <1>25, <1>26, <1>27 DEF Next, HostGoesOn, JoinGoesOn

-----------------------------------------------------------------------------

(* What a key file that is written leaves of all that was promised.        *)
LEMMA KeyStepKeeps ==
    ASSUME IInv, NEW r \in Ref, NEW f \in KeyFile, KeysAreAt(r, f), WriteKeyFile(r, f),
           UNCHANGED <<config, running, bundles>>
    PROVE  /\ BundlesAreHeld' /\ HostedKeyIsHeld'
           /\ \A s \in Ref : Complete(s) => Complete(s)' /\ keys'[s] = keys[s]
           /\ \A s \in Ref : \A step : s # r /\ KeysAreAt(s, step) => KeysAreAt(s, step)'
<1>0. TypeOK /\ BundlesAreHeld /\ HostedKeyIsHeld
  BY DEF IInv
<1>1. ~ Complete(r) /\ \A s \in Ref : s # r => keys'[s] = keys[s]
  BY <1>0, KeyStep
<1>2. \A s \in Ref : Complete(s) => Complete(s)' /\ keys'[s] = keys[s]
  BY <1>1 DEF Complete
<1>3. \A s \in Ref : \A step : s # r /\ KeysAreAt(s, step) => KeysAreAt(s, step)'
  BY <1>1, <1>2 DEF KeysAreAt
<1>4. BundlesAreHeld'
  BY <1>0, <1>2 DEF BundlesAreHeld, TypeOK
<1>5. HostedKeyIsHeld'
  BY <1>0, <1>2 DEF HostedKeyIsHeld, Hosted
<1> QED  BY <1>2, <1>3, <1>4, <1>5

LEMMA NextIInv == IInv /\ [Next]_vars => IInv'
<1> SUFFICES ASSUME IInv, [Next]_vars PROVE IInv'
  OBVIOUS
<1>0. TypeOK /\ TypeOK' /\ HostIsRight /\ JoinIsRight /\ BundlesAreHeld /\ HostedKeyIsHeld
  BY NextTypeOK DEF IInv
<1> USE <1>0 DEF tlsVars, hostFiles, guestFiles, zips, bounds
<1>1. ASSUME UNCHANGED <<keys, bundles, join>>
      PROVE  BundlesAreHeld' /\ JoinIsRight'
  BY <1>1, SameKeys DEF BundlesAreHeld, JoinIsRight
<1>2. ASSUME UNCHANGED <<keys, config, running>>
      PROVE  HostedKeyIsHeld'
  BY <1>2, SameKeys DEF HostedKeyIsHeld, Hosted
<1>3. ASSUME UNCHANGED <<keys, config, host>>
      PROVE  HostIsRight'
  BY <1>3, SameKeys DEF HostIsRight
<1>4. ASSUME UNCHANGED keys, host' = Idle
      PROVE  HostIsRight'
  BY <1>4 DEF HostIsRight, Idle
<1>5. ASSUME NEW s \in HostStep, UNCHANGED keys, HostGoto(s), host.ref = Owner,
             KeysAreAt(Owner, s), s \notin {"pending", "zip", "enroll", "unlink"}
      PROVE  HostIsRight'
  <2>1. CASE s = "none"
    BY <1>4, <1>5, <2>1 DEF HostGoto
  <2>2. CASE s # "none"
    <3>1. host'.step = s /\ host'.ref = Owner
      BY <1>5, <2>2 DEF HostGoto, TypeOK
    <3> QED  BY <1>5, <3>1, SameKeys DEF HostIsRight
  <2> QED  BY <2>1, <2>2
<1>6. ASSUME NEW s \in {"zip", "unlink", "none"}, UNCHANGED keys, HostGoto(s), host.ref \in Guest
      PROVE  HostIsRight'
  <2>1. CASE s = "none"
    BY <1>4, <1>6, <2>1 DEF HostGoto
  <2>2. CASE s # "none"
    <3>1. host'.step = s /\ host'.ref = host.ref
      BY <1>6, <2>2 DEF HostGoto, TypeOK
    <3> QED  BY <1>6, <3>1 DEF HostIsRight
  <2> QED  BY <2>1, <2>2
<1>7. CASE StartInit
  <2>1. host'.step = "cert" /\ host'.ref = Owner
    BY <1>7 DEF StartInit, Idle
  <2>2. HostIsRight'
    BY <2>1 DEF HostIsRight, KeysAreAt
  <2> QED  BY <1>1, <1>2, <1>7, <2>2 DEF StartInit, IInv
<1>8. CASE InitCert
  <2>1. HostIsRight'
    BY <1>5, <1>8 DEF InitCert, HostIsRight, HostStep, KeysAreAt
  <2> QED  BY <1>1, <1>2, <1>8, <2>1 DEF InitCert, IInv
<1>9. CASE InitCa
  <2>1. HostIsRight'
    BY <1>5, <1>9, EnsureIdentityFacts DEF InitCa, HostIsRight, HostStep
  <2> QED  BY <1>1, <1>2, <1>9, <2>1 DEF InitCa, IInv
<1>10. CASE InitKeys
  <2>1. PICK f \in KeyFile : f = host.step
    BY <1>10 DEF InitKeys
  <2>2. KeysAreAt(Owner, f) /\ WriteKeyFile(Owner, f) /\ HostGoto(AfterKeyFile(f)) /\ host.ref = Owner
    BY <1>10, <2>1 DEF InitKeys, HostIsRight
  <2>3. BundlesAreHeld' /\ HostedKeyIsHeld'
    BY <1>10, <2>2, KeyStepKeeps DEF InitKeys
  <2>4. JoinIsRight'
    BY <1>10, <2>2, KeyStepKeeps, EnrollmentAssumption DEF InitKeys, JoinIsRight
  <2>5. HostIsRight'
    <3>1. AfterKeyFile(f) \in {"public", "raw", "profile"} /\ KeysAreAt(Owner, AfterKeyFile(f))'
      BY <2>2, KeyStep
    <3>2. host'.step = AfterKeyFile(f) /\ host'.ref = Owner
      BY <2>2, <3>1 DEF HostGoto, TypeOK
    <3> QED  BY <3>1, <3>2 DEF HostIsRight
  <2> QED  BY <2>3, <2>4, <2>5 DEF IInv
<1>11. CASE InitProfile
  <2>1. HostIsRight'
    BY <1>5, <1>11 DEF InitProfile, HostIsRight, HostStep, KeysAreAt
  <2> QED  BY <1>1, <1>2, <1>11, <2>1 DEF InitProfile, IInv
<1>12. CASE InitConfig
  <2>1. HostIsRight'
    BY <1>5, <1>12 DEF InitConfig, HostIsRight, HostStep, KeysAreAt
  <2>2. Complete(Owner)
    BY <1>12 DEF InitConfig, HostIsRight, KeysAreAt
  <2>3. \A r \in Ref : Hosted(r)' => r = Owner /\ config'[r].key = keys[Owner].public
    BY <1>12 DEF InitConfig, Hosted
  <2>4. HostedKeyIsHeld'
    BY <1>12, <2>2, <2>3, SameKeys DEF InitConfig, HostedKeyIsHeld
  <2> QED  BY <1>1, <1>12, <2>1, <2>4 DEF InitConfig, IInv
<1>13. CASE InitDoc
  <2>1. HostIsRight'
    BY <1>5, <1>13 DEF InitDoc, HostIsRight, HostStep, KeysAreAt
  <2> QED  BY <1>1, <1>2, <1>13, <2>1 DEF InitDoc, IInv
<1>14. ASSUME NEW r \in Guest, StartInvite(r) PROVE IInv'
  <2>1. host'.step = "pending" /\ host'.ref = r
    BY <1>14 DEF StartInvite, Idle
  <2>2. HostIsRight'
    BY <2>1 DEF HostIsRight
  <2> QED  BY <1>1, <1>2, <1>14, <2>2 DEF StartInvite, IInv
<1>15. CASE InvitePending
  <2>1. HostIsRight'
    BY <1>6, <1>15 DEF InvitePending, HostIsRight
  <2> QED  BY <1>1, <1>2, <1>15, <2>1 DEF InvitePending, IInv
<1>16. CASE InviteZip
  <2>1. HostIsRight'
    BY <1>6, <1>16 DEF InviteZip, HostIsRight
  <2> QED  BY <1>1, <1>2, <1>16, <2>1 DEF InviteZip, IInv
<1>17. ASSUME NEW b \in bundles, StartEnroll(b) PROVE IInv'
  <2>1. host'.step = "enroll" /\ host'.ref = b.ref /\ host'.key = b.key
    BY <1>17 DEF StartEnroll
  <2>2. b.ref \in Guest /\ Complete(b.ref) /\ b.key = keys[b.ref].public /\ config # Null
    BY <1>17 DEF StartEnroll, BundlesAreHeld, TypeOK
  <2>3. HostIsRight'
    BY <1>17, <2>1, <2>2, SameKeys DEF StartEnroll, HostIsRight
  <2> QED  BY <1>1, <1>2, <1>17, <2>3 DEF StartEnroll, IInv
<1>18. CASE EnrollConfig
  <2>1. HostIsRight'
    BY <1>6, <1>18 DEF EnrollConfig, HostIsRight
  <2>2. /\ config # Null /\ config \in [Ref -> OrNull(Entry)]
        /\ host.ref \in Ref /\ Complete(host.ref) /\ host.key = keys[host.ref].public
    BY <1>18 DEF EnrollConfig, HostIsRight, TypeOK
  <2>3. config' = [config EXCEPT ![host.ref] = [key |-> host.key, token |-> host.token]]
    BY <1>18 DEF EnrollConfig, WithEntry
  <2>4. \A r \in Ref : Hosted(r)' =>
           IF r = host.ref THEN config'[r].key = host.key ELSE Hosted(r) /\ config'[r] = config[r]
    BY <2>2, <2>3 DEF Hosted
  <2>5. HostedKeyIsHeld'
    BY <1>18, <2>2, <2>4, SameKeys DEF EnrollConfig, HostedKeyIsHeld
  <2> QED  BY <1>1, <1>18, <2>1, <2>5 DEF EnrollConfig, IInv
<1>19. CASE EnrollUnlink
  <2>1. HostIsRight'
    BY <1>6, <1>19 DEF EnrollUnlink, HostIsRight
  <2> QED  BY <1>1, <1>2, <1>19, <2>1 DEF EnrollUnlink, IInv
<1>20. CASE HostCrash
  <2>1. config' \in {config, Null}
    BY <1>20 DEF HostCrash
  <2>2. HostedKeyIsHeld'
    BY <1>20, <2>1, SameKeys DEF HostCrash, HostedKeyIsHeld, Hosted
  <2> QED  BY <1>1, <1>4, <1>20, <2>2 DEF HostCrash, IInv
<1>21. CASE Restart
  <2>1. running' = Null \/ (config # Null /\ running' = [config |-> config, cert |-> cert])
    BY <1>21 DEF Restart, Start
  <2>2. HostedKeyIsHeld'
    BY <1>21, <2>1, SameKeys DEF Restart, HostedKeyIsHeld, Hosted
  <2> QED  BY <1>1, <1>3, <1>21, <2>2 DEF Restart, IInv
<1>22. ASSUME NEW r \in Guest, UNCHANGED keys, \A s \in Guest : s # r => join'[s] = join[s],
              join'[r].step # "none" => join'[r].invite \in Invite /\ KeysAreAt(r, join'[r].step)
       PROVE  JoinIsRight'
  <2>1. KeysAreAt(r, "none")'
    BY DEF KeysAreAt
  <2> QED  BY <1>22, <2>1, SameKeys DEF JoinIsRight
<1>23. ASSUME NEW r \in Guest, NEW s, JoinGoto(r, s)
       PROVE  /\ \A q \in Guest : q # r => join'[q] = join[q]
              /\ s = "none" => join'[r].step = "none"
              /\ s # "none" => join'[r].step = s /\ join'[r].invite = join[r].invite
  BY <1>23 DEF JoinGoto, Out, TypeOK
<1>24. ASSUME NEW r \in Guest, NEW i \in invites, StartJoin(r, i) PROVE IInv'
  <2>1. /\ \A q \in Guest : q # r => join'[q] = join[q]
        /\ join'[r].step = "ca" /\ join'[r].invite \in Invite
    BY <1>24 DEF StartJoin, TypeOK
  <2>2. JoinIsRight'
    BY <1>22, <1>24, <2>1 DEF StartJoin, KeysAreAt
  <2>3. BundlesAreHeld'
    BY <1>24, SameKeys DEF StartJoin, BundlesAreHeld
  <2> QED  BY <1>2, <1>3, <1>24, <2>2, <2>3 DEF StartJoin, IInv
<1>25. ASSUME NEW r \in Guest, JoinCa(r) PROVE IInv'
  <2>1. JoinIsRight'
    BY <1>22, <1>23, <1>25, EnsureIdentityFacts DEF JoinCa, JoinIsRight
  <2>2. BundlesAreHeld'
    BY <1>25, SameKeys DEF JoinCa, BundlesAreHeld
  <2> QED  BY <1>2, <1>3, <1>25, <2>1, <2>2 DEF JoinCa, IInv
<1>26. ASSUME NEW r \in Guest, JoinKeys(r) PROVE IInv'
  <2>1. PICK f \in KeyFile : f = join[r].step
    BY <1>26 DEF JoinKeys
  <2>2. KeysAreAt(r, f) /\ WriteKeyFile(r, f) /\ JoinGoto(r, AfterKeyFile(f))
    BY <1>26, <2>1 DEF JoinKeys, JoinIsRight
  <2>3. BundlesAreHeld' /\ HostedKeyIsHeld'
    BY <1>26, <2>2, KeyStepKeeps DEF JoinKeys
  <2>4. HostIsRight'
    BY <1>26, <2>2, KeyStepKeeps, EnrollmentAssumption DEF JoinKeys, HostIsRight
  <2>5. JoinIsRight'
    <3>1. AfterKeyFile(f) \in {"public", "raw", "profile"} /\ KeysAreAt(r, AfterKeyFile(f))'
      BY <2>2, KeyStep
    <3>2. /\ join'[r].step = AfterKeyFile(f) /\ join'[r].invite \in Invite
          /\ \A q \in Guest : q # r => join'[q] = join[q]
      BY <2>1, <2>2, <1>23, <3>1 DEF JoinIsRight
    <3>3. \A q \in Guest : q # r => KeysAreAt(q, join[q].step)'
      BY <1>26, <2>2, <3>2, KeyStepKeeps DEF JoinKeys, JoinIsRight
    <3> QED  BY <3>1, <3>2, <3>3 DEF JoinIsRight
  <2> QED  BY <2>3, <2>4, <2>5 DEF IInv
<1>27. ASSUME NEW r \in Guest, JoinProfile(r) PROVE IInv'
  <2>1. JoinIsRight'
    BY <1>22, <1>23, <1>27 DEF JoinProfile, JoinIsRight, KeysAreAt
  <2>2. BundlesAreHeld'
    BY <1>27, SameKeys DEF JoinProfile, BundlesAreHeld
  <2> QED  BY <1>2, <1>3, <1>27, <2>1, <2>2 DEF JoinProfile, IInv
<1>28. ASSUME NEW r \in Guest, JoinBundle(r) PROVE IInv'
  <2>1. JoinIsRight'
    BY <1>22, <1>23, <1>28 DEF JoinBundle
  <2>2. Complete(r)
    BY <1>28 DEF JoinBundle, JoinIsRight, KeysAreAt
  <2>3. BundlesAreHeld'
    BY <1>28, <2>2, SameKeys DEF JoinBundle, BundlesAreHeld
  <2> QED  BY <1>2, <1>3, <1>28, <2>1, <2>3 DEF JoinBundle, IInv
<1>29. ASSUME NEW r \in Guest, JoinCrash(r) PROVE IInv'
  <2>1. /\ \A q \in Guest : q # r => join'[q] = join[q]
        /\ join'[r].step = "none"
    BY <1>29 DEF JoinCrash, Out, TypeOK
  <2>2. JoinIsRight'
    BY <1>22, <1>29, <2>1 DEF JoinCrash
  <2>3. BundlesAreHeld'
    BY <1>29, SameKeys DEF JoinCrash, BundlesAreHeld
  <2> QED  BY <1>2, <1>3, <1>29, <2>2, <2>3 DEF JoinCrash, IInv
<1>30. CASE UNCHANGED vars
  BY <1>1, <1>2, <1>3, <1>30 DEF vars, IInv
<1> QED
  BY <1>7, <1>8, <1>9, <1>10, <1>11, <1>12, <1>13, <1>14, <1>15, <1>16, <1>17, <1>18, <1>19, <1>20,
     <1>21, <1>24, <1>25, <1>26, <1>27, <1>28, <1>29, <1>30 DEF Next, HostGoesOn, JoinGoesOn

LEMMA Invariance == Spec => []IInv
  BY InitIInv, NextIInv, PTL DEF Spec

(* Every variable keeps its type, whatever was torn by a crash.            *)
THEOREM EnrollmentTypeCorrect == Spec => []TypeOK
<1>1. IInv => TypeOK
  BY DEF IInv
<1> QED  BY <1>1, Invariance, PTL

(* Whoever is hosted, by server.json or by the server that runs, is hosted *)
(* under the key in its own, complete key store, for any number of guests, *)
(* crashes and repeated commands.                                          *)
THEOREM HostedKeyIsAlwaysHeld == Spec => []HostedKeyIsHeld
<1>1. IInv => HostedKeyIsHeld
  BY DEF IInv
<1> QED  BY <1>1, Invariance, PTL

-----------------------------------------------------------------------------
(* Where the tokens are.  Tokens are drawn in order and the host runs one  *)
(* command at a time, so the token an enroll has read is still the pending *)
(* one when it is written and when it is removed, and no pending token is  *)
(* older than the hosted one.                                              *)

EnrollingIsPending ==
    host.step \in {"enroll", "unlink"} => host.token = pending[host.ref]

UnlinkingIsHosted ==
    host.step = "unlink" => Hosted(host.ref) /\ config[host.ref].token = host.token

TokensAreDrawn ==
    /\ host.token <= drawn
    /\ \A r \in Guest :
          /\ pending[r] # Null => pending[r] <= drawn
          /\ Hosted(r) => config[r].token <= drawn
          /\ Hosted(r) /\ host.step = "pending" => config[r].token <= host.token

PendingIsNotOlder ==
    \A r \in Guest : pending[r] # Null /\ Hosted(r) => config[r].token <= pending[r]

TokensAreRight ==
    EnrollingIsPending /\ UnlinkingIsHosted /\ TokensAreDrawn /\ PendingIsNotOlder

LEMMA InitTokens == Init => TokensAreRight
  BY EnrollmentAssumption
  DEF Init, TokensAreRight, EnrollingIsPending, UnlinkingIsHosted, TokensAreDrawn,
      PendingIsNotOlder, Hosted, Idle

(* A step that leaves the host's files alone.                              *)
LEMMA SameFiles ==
    ASSUME TypeOK, TokensAreRight, UNCHANGED <<config, pending>>, drawn' \in Nat, drawn' >= drawn,
           \/ host' = host
           \/ /\ host'.token \in Nat /\ host'.token <= drawn'
              /\ host'.step \notin {"enroll", "unlink"}
              /\ host'.step = "pending" => host'.token = drawn'
    PROVE  TokensAreRight'
<1>1. \A r \in Guest : Hosted(r) => config[r].token \in Nat /\ config[r].token <= drawn
  BY DEF TypeOK, Hosted, TokensAreRight, TokensAreDrawn
<1>2. /\ Null \notin Nat /\ drawn \in Nat /\ host.token \in Nat /\ host.token <= drawn
      /\ \A r \in Guest : pending[r] # Null => pending[r] \in Nat /\ pending[r] <= drawn
  BY EnrollmentAssumption DEF TypeOK, TokensAreRight, TokensAreDrawn
<1>3. PendingIsNotOlder'
  BY DEF TokensAreRight, PendingIsNotOlder, Hosted
<1>4. EnrollingIsPending' /\ UnlinkingIsHosted'
  BY DEF TokensAreRight, EnrollingIsPending, UnlinkingIsHosted, Hosted
<1>5. TokensAreDrawn'
  BY <1>1, <1>2 DEF TokensAreRight, TokensAreDrawn, Hosted
<1> QED  BY <1>3, <1>4, <1>5 DEF TokensAreRight

(* A step of the host that goes on to another one.                         *)
LEMMA GotoFacts ==
    ASSUME TypeOK, NEW s, HostGoto(s)
    PROVE  /\ s = "none" => host' = Idle
           /\ s # "none" => host'.step = s /\ host'.ref = host.ref /\ host'.token = host.token
  BY DEF HostGoto, TypeOK

LEMMA NextTokens == IInv /\ TokensAreRight /\ [Next]_vars => TokensAreRight'
<1> SUFFICES ASSUME IInv, TokensAreRight, [Next]_vars PROVE TokensAreRight'
  OBVIOUS
<1>0. TypeOK /\ TypeOK' /\ HostIsRight
  BY NextTypeOK DEF IInv
<1>1. /\ drawn \in Nat /\ host.token \in Nat /\ host.token <= drawn /\ Null \notin Nat
      /\ \A r \in Guest : pending[r] # Null => pending[r] \in Nat /\ pending[r] <= drawn
      /\ \A r \in Guest : Hosted(r) => config[r].token \in Nat /\ config[r].token <= drawn
      /\ \A r \in Guest : pending[r] # Null /\ Hosted(r) => config[r].token <= pending[r]
  BY <1>0, EnrollmentAssumption
  DEF TypeOK, Hosted, TokensAreRight, TokensAreDrawn, PendingIsNotOlder
<1>2. Idle.step = "none" /\ Idle.token = 0
  BY DEF Idle
<1>3. ASSUME UNCHANGED <<config, pending, drawn, host>> PROVE TokensAreRight'
  BY <1>0, <1>1, <1>3, SameFiles
<1>4. ASSUME UNCHANGED <<config, pending, drawn>>, NEW s \in HostStep, HostGoto(s),
             s \notin {"pending", "enroll", "unlink"}
      PROVE  TokensAreRight'
  <2>1. host'.token \in Nat /\ host'.token <= drawn' /\ host'.step = s
    BY <1>0, <1>1, <1>2, <1>4, GotoFacts
  <2> QED  BY <1>0, <1>1, <1>4, <2>1, SameFiles
<1>5. CASE StartInit
  <2>1. host'.step = "cert" /\ host'.token = drawn' /\ drawn' = drawn + 1
    BY <1>5 DEF StartInit, Idle
  <2> QED  BY <1>0, <1>1, <1>5, <2>1, SameFiles DEF StartInit, hostFiles
<1>6. CASE InitCert \/ InitCa \/ InitKeys \/ InitProfile \/ InitDoc \/ InviteZip
  <2>1. host.step \in KeyFile => AfterKeyFile(host.step) \in {"public", "raw", "profile"}
    BY DEF AfterKeyFile
  <2>2. EnsureIdentity(Owner) \in {"profile", "none", "secret"}
    BY EnsureIdentityFacts
  <2> QED  BY <1>4, <1>6, <2>1, <2>2
           DEF InitCert, InitCa, InitKeys, InitProfile, InitDoc, InviteZip, HostStep, hostFiles
<1>7. CASE InitConfig
  <2>1. /\ host' .step = "doc" /\ host'.token = host.token
        /\ UNCHANGED <<pending, drawn>>
        /\ \A r \in Guest : ~ Hosted(r)'
    BY <1>0, <1>7, GotoFacts, EnrollmentAssumption DEF InitConfig, Hosted
  <2> QED  BY <1>1, <2>1
           DEF TokensAreRight, EnrollingIsPending, UnlinkingIsHosted, TokensAreDrawn, PendingIsNotOlder
<1>8. ASSUME NEW r \in Guest, StartInvite(r) PROVE TokensAreRight'
  <2>1. host'.step = "pending" /\ host'.token = drawn' /\ drawn' = drawn + 1
    BY <1>8 DEF StartInvite, Idle
  <2> QED  BY <1>0, <1>1, <1>8, <2>1, SameFiles DEF StartInvite, hostFiles
<1>9. CASE InvitePending
  <2>1. /\ host'.step = "zip" /\ host'.token = host.token
        /\ UNCHANGED <<config, drawn>>
        /\ \A r \in Guest : pending'[r] \in {pending[r], host.token}
        /\ \A r \in Guest : Hosted(r) => config[r].token <= host.token
    BY <1>0, <1>9, GotoFacts DEF InvitePending, TypeOK, TokensAreRight, TokensAreDrawn
  <2> QED  BY <1>1, <2>1
           DEF TokensAreRight, EnrollingIsPending, UnlinkingIsHosted, TokensAreDrawn, PendingIsNotOlder,
               Hosted
<1>10. ASSUME NEW b \in bundles, StartEnroll(b) PROVE TokensAreRight'
  <2>1. /\ host'.step = "enroll" /\ host'.ref = b.ref /\ host'.token = pending[b.ref]
        /\ pending[b.ref] # Null /\ b.ref \in Guest
        /\ UNCHANGED <<config, pending, drawn>>
    BY <1>0, <1>10 DEF StartEnroll, TypeOK, hostFiles
  <2> QED  BY <1>1, <2>1
           DEF TokensAreRight, EnrollingIsPending, UnlinkingIsHosted, TokensAreDrawn, PendingIsNotOlder,
               Hosted
<1>11. CASE EnrollConfig
  <2>1. /\ host'.step = "unlink" /\ host'.token = host.token /\ host'.ref = host.ref
        /\ UNCHANGED <<pending, drawn>>
        /\ host.ref \in Guest /\ host.token = pending[host.ref]
    BY <1>0, <1>11, GotoFacts DEF EnrollConfig, HostIsRight, TokensAreRight, EnrollingIsPending
  <2>2. /\ config # Null /\ config \in [Ref -> OrNull(Entry)]
        /\ [key |-> host.key, token |-> host.token] \in Entry
    BY <1>0, <1>11 DEF EnrollConfig, HostIsRight, TypeOK
  <2>3. config' = [config EXCEPT ![host.ref] = [key |-> host.key, token |-> host.token]]
    BY <1>11 DEF EnrollConfig, WithEntry
  <2>4. config' \in [Ref -> OrNull(Entry)]
    BY <2>2, <2>3
  <2>5. config' # Null /\ config'[host.ref] # Null
    BY <2>1, <2>2, <2>3, <2>4, EnrollmentAssumption
  <2> QED  BY <1>1, <2>1, <2>2, <2>3, <2>5
           DEF TokensAreRight, EnrollingIsPending, UnlinkingIsHosted, TokensAreDrawn, PendingIsNotOlder,
               Hosted
<1>12. CASE EnrollUnlink
  <2>1. /\ host' = Idle
        /\ UNCHANGED <<config, drawn>>
        /\ \A r \in Guest : pending'[r] \in {pending[r], Null}
    BY <1>0, <1>12, GotoFacts DEF EnrollUnlink, TypeOK
  <2> QED  BY <1>1, <1>2, <2>1
           DEF TokensAreRight, EnrollingIsPending, UnlinkingIsHosted, TokensAreDrawn, PendingIsNotOlder,
               Hosted
<1>13. CASE HostCrash
  <2>1. host' = Idle /\ drawn' = drawn /\ config' \in {config, Null}
    BY <1>13 DEF HostCrash
  <2>2. \A r \in Guest : pending'[r] \in {pending[r], Null}
    <3>1. \E x \in {pending[host.ref], Null} : pending' = [pending EXCEPT ![host.ref] = x]
      BY <1>13 DEF HostCrash
    <3> QED  BY <1>0, <3>1 DEF TypeOK
  <2> QED  BY <1>1, <1>2, <2>1, <2>2
           DEF TokensAreRight, EnrollingIsPending, UnlinkingIsHosted, TokensAreDrawn, PendingIsNotOlder,
               Hosted
<1>14. CASE Restart
  BY <1>3, <1>14 DEF Restart, hostFiles
<1>15. ASSUME NEW r \in Guest,
              \/ \E i \in invites : StartJoin(r, i)
              \/ JoinCa(r) \/ JoinKeys(r) \/ JoinProfile(r) \/ JoinBundle(r) \/ JoinCrash(r)
       PROVE  TokensAreRight'
  BY <1>3, <1>15 DEF StartJoin, JoinCa, JoinKeys, JoinProfile, JoinBundle, JoinCrash, hostFiles
<1>16. CASE UNCHANGED vars
  BY <1>3, <1>16 DEF vars, hostFiles
<1> QED
  BY <1>5, <1>6, <1>7, <1>8, <1>9, <1>10, <1>11, <1>12, <1>13, <1>14, <1>15, <1>16
  DEF Next, HostGoesOn, JoinGoesOn

(* For any guests, invites, crashes and repeated commands: an invite's     *)
(* token goes from pending-invites only once server.json holds it or for a *)
(* newer invite, and a hosted guest never goes back to an older token.     *)
THEOREM TokensAlwaysMoveOn == Spec => TokensMoveOn
<1> DEFINE Moved(r) ==
      /\ pending[r] # Null /\ pending'[r] # pending[r] =>
             host.step = "pending" \/ (Hosted(r) /\ config[r].token = pending[r])
      /\ Hosted(r) /\ Hosted(r)' => config[r].token <= config'[r].token
<1>1. IInv /\ TokensAreRight /\ [Next]_vars => [\A r \in Guest : Moved(r)]_vars
  <2> SUFFICES ASSUME IInv, TokensAreRight, Next, NEW r \in Guest
               PROVE  Moved(r)
    OBVIOUS
  <2>1. TypeOK /\ HostIsRight
    BY DEF IInv
  <2>2. Hosted(r) => config[r].token \in Nat
    BY <2>1, EnrollmentAssumption DEF Hosted, TypeOK
  <2>3. CASE InitConfig
    BY <2>3, EnrollmentAssumption DEF InitConfig, Hosted
  <2>4. CASE InvitePending
    BY <2>2, <2>4 DEF InvitePending
  <2>5. CASE EnrollConfig
    <3>1. /\ host.ref \in Guest /\ host.token = pending[host.ref] /\ host.token \in Nat
          /\ config # Null /\ config \in [Ref -> OrNull(Entry)]
          /\ config' = [config EXCEPT ![host.ref] = [key |-> host.key, token |-> host.token]]
          /\ pending' = pending
      BY <2>1, <2>5 DEF EnrollConfig, WithEntry, HostIsRight, TokensAreRight, EnrollingIsPending, TypeOK
    <3>2. Hosted(host.ref) => config[host.ref].token <= host.token
      BY <3>1, EnrollmentAssumption DEF TokensAreRight, PendingIsNotOlder
    <3> QED  BY <2>2, <3>1, <3>2
  <2>6. CASE EnrollUnlink
    <3>1. /\ pending' = [pending EXCEPT ![host.ref] = Null] /\ config' = config
          /\ Hosted(host.ref) /\ config[host.ref].token = pending[host.ref]
      BY <2>6 DEF EnrollUnlink, TokensAreRight, UnlinkingIsHosted, EnrollingIsPending
    <3> QED  BY <2>1, <2>2, <3>1 DEF TypeOK
  <2>7. CASE HostCrash
    <3>1. config' \in {config, Null}
      BY <2>7 DEF HostCrash
    <3>2. host.step # "pending" => pending'[r] = pending[r]
      BY <2>1, <2>7 DEF HostCrash, TypeOK
    <3> QED  BY <2>2, <3>1, <3>2 DEF Hosted
  <2>8. CASE ~ (InitConfig \/ InvitePending \/ EnrollConfig \/ EnrollUnlink \/ HostCrash)
    <3>1. UNCHANGED <<config, pending>>
      BY <2>8, Zenon DEF Next, HostGoesOn, JoinGoesOn, StartInit, InitCert, InitCa, InitKeys, InitProfile,
         InitDoc, StartInvite, InviteZip, StartEnroll, Restart,
         StartJoin, JoinCa, JoinKeys, JoinProfile, JoinBundle, JoinCrash, hostFiles
    <3> QED  BY <2>2, <3>1
  <2> QED  BY <2>3, <2>4, <2>5, <2>6, <2>7, <2>8
<1>2. Spec => []TokensAreRight
  BY InitTokens, NextTokens, Invariance, PTL DEF Spec
<1> QED  BY <1>1, <1>2, Invariance, PTL DEF Spec, TokensMoveOn

=============================================================================
