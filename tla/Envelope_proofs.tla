--------------------------- MODULE Envelope_proofs --------------------------
(***************************************************************************)
(* Rotating the master key never costs a student a key, for any number of  *)
(* credentials, processes and versions: EveryKeyReadable and InOnePlace    *)
(* are invariants, the first provided the operator activates a version     *)
(* only once every running process has it.                                 *)
(***************************************************************************)
EXTENDS Envelope, TLAPS

\* Any process that runs can open what any process that runs, or is started from the
\* environment, will seal.
RingsAgree ==
    /\ \A p \in Running : env.active \in process[p].ring /\ process[p].active \in env.ring
    /\ \A p, q \in Running : process[p].active \in process[q].ring

\* What has been sealed can be opened, now and after the next deploy.
RingsSuffice ==
    /\ Needed \subseteq env.ring
    /\ \A p \in Running : Needed \subseteq process[p].ring

\* What is stored for a credential is the last key given for it.
LastGiven ==
    \A c \in Stored \ misplaced : SecretOf(c).cred = c /\ SecretOf(c).n = given[c]

IInv == TypeOK /\ InOnePlace /\ LastGiven /\ (Staged => RingsAgree /\ RingsSuffice)

-----------------------------------------------------------------------------

LEMMA KeyNumbers ==
    /\ 0 \in 0..MaxKeys /\ 1 \in 0..MaxKeys /\ 1 \in 1..MaxKeys
    /\ \A n \in 0..MaxKeys : n < MaxKeys => n + 1 \in 0..MaxKeys /\ n + 1 \in 1..MaxKeys
BY MaxKeysAssumption

LEMMA SecretOfStored ==
    ASSUME TypeOK, InOnePlace, NEW c \in Stored
    PROVE  SecretOf(c) \in Secrets
BY NoneAssumption DEF TypeOK, InOnePlace, Stored, SecretOf, Local, Infisical, NoRow

LEMMA InitHolds == Init => IInv
<1> SUFFICES ASSUME Init PROVE IInv
  OBVIOUS
<1> USE DEF Local, Infisical, NoRow
<1>1. Running = {}
  BY DEF Init, Running
<1>2. TypeOK
  <2>1. env \in Environments /\ env.active \in env.ring
    BY VersionsAssumption DEF Init, Environments
  <2>2. \A c \in Legacy :
            [sealed |-> FALSE, cred |-> c, n |-> 1, version |-> 1] \in Secrets
    BY LegacyAssumption, KeyNumbers, VersionsAssumption DEF Secrets
  <2>3. given \in [Credentials -> 0..MaxKeys]
    BY KeyNumbers DEF Init
  <2>4. remote \in [Credentials -> Secrets \cup {NoSecret}]
    BY <2>2 DEF Init
  <2> QED
    BY <1>1, <2>1, <2>3, <2>4 DEF TypeOK, Init
<1>3. InOnePlace
  <2>1. \A c \in Legacy : remote[c] \in Secrets
    BY LegacyAssumption, KeyNumbers, VersionsAssumption DEF Init, Secrets
  <2> QED
    BY ZenonT(90), <2>1, LegacyAssumption, NoneAssumption DEF InOnePlace, Init
<1>4. Stored = Legacy
  BY LegacyAssumption DEF Stored, Init
<1>5. Needed = {}
  BY <1>4, LegacyAssumption DEF Needed, SecretOf, Init
<1>6. LastGiven
  BY <1>4, LegacyAssumption DEF LastGiven, SecretOf, Init
<1> QED
  BY <1>1, <1>2, <1>3, <1>5, <1>6 DEF IInv, RingsAgree, RingsSuffice

-----------------------------------------------------------------------------
(* The secrets change and the environments do not                          *)

\* What a step does to the secret of a credential: it stays, it goes, or it becomes a
\* secret that all the rings open, the last one given unless misplaced.
LEMMA SecretsChange ==
    ASSUME IInv, UNCHANGED <<env, process>>, TypeOK', InOnePlace',
           \A c \in Stored' :
              /\ SecretOf(c)'.sealed =>
                    \/ SecretOf(c)'.version \in Needed
                    \/ \E p \in Running : SecretOf(c)'.version = process[p].active
              /\ c \notin misplaced' =>
                    SecretOf(c)'.cred = c /\ SecretOf(c)'.n = given'[c]
    PROVE  IInv'
<1>1. Running' = Running
  BY DEF Running
<1>2. Staged => RingsAgree'
  BY <1>1 DEF IInv, RingsAgree
<1>3. \A v \in Needed' : v \in Needed \/ \E p \in Running : v = process[p].active
  BY DEF Needed
<1>4. Staged => RingsSuffice'
  BY <1>1, <1>3 DEF IInv, RingsSuffice, RingsAgree
<1>5. LastGiven'
  BY DEF LastGiven
<1> QED
  BY <1>2, <1>4, <1>5 DEF IInv

LEMMA PutKeeps ==
    ASSUME IInv, NEW p \in Processes, NEW c \in Credentials, PutKey(p, c)
    PROVE  IInv'
<1> USE DEF Local, Infisical, NoRow
<1> DEFINE secret == Seal(process[p], c, given[c] + 1)
           store == StoreFor(p, c)
<1>1. p \in Running /\ process[p] \in Environments
  BY NoneAssumption DEF PutKey, IInv, TypeOK, Running
<1>2. secret \in Secrets /\ secret.version = process[p].active
      /\ secret.cred = c /\ secret.n = given[c] + 1
  <2>1. given[c] \in 0..MaxKeys /\ given[c] < MaxKeys
    BY DEF PutKey, IInv, TypeOK
  <2>2. given[c] + 1 \in 1..MaxKeys
    BY <2>1, KeyNumbers
  <2>3. process[p].active \in Versions
    BY <1>1 DEF Environments
  <2> QED
    BY <2>2, <2>3 DEF Seal, SealingVersion, Secrets
<1>3. store \in {Local, Infisical} /\ (c \in Stored => store = backend[c])
  BY <1>1 DEF StoreFor, Stored, Environments
<1>4. /\ backend' = [backend EXCEPT ![c] = store]
      /\ column' = [column EXCEPT ![c] = IF store = Local THEN secret ELSE @]
      /\ remote' = [remote EXCEPT ![c] = IF store = Infisical THEN secret ELSE @]
      /\ given' = [given EXCEPT ![c] = @ + 1]
      /\ misplaced' = misplaced \ {c}
      /\ UNCHANGED <<env, process>>
      /\ given[c] < MaxKeys
  BY DEF PutKey
<1> HIDE DEF secret, store
<1>5. TypeOK'
  <2>1. given' \in [Credentials -> 0..MaxKeys]
    <3>1. given[c] \in 0..MaxKeys /\ given[c] < MaxKeys
      BY <1>4 DEF IInv, TypeOK
    <3>2. given[c] + 1 \in 0..MaxKeys
      BY <3>1, KeyNumbers
    <3> QED
      BY <1>4, <3>2 DEF IInv, TypeOK
  <2>2. backend' \in [Credentials -> {Local, Infisical, NoRow}]
    BY <1>3, <1>4 DEF IInv, TypeOK
  <2>3. column' \in [Credentials -> Secrets \cup {NoSecret}]
    BY <1>2, <1>4 DEF IInv, TypeOK
  <2>4. remote' \in [Credentials -> Secrets \cup {NoSecret}]
    BY <1>2, <1>4 DEF IInv, TypeOK
  <2>5. Running' = Running
    BY <1>4 DEF Running
  <2> QED
    BY <1>4, <2>1, <2>2, <2>3, <2>4, <2>5 DEF IInv, TypeOK
<1>6. InOnePlace'
  <2>1. c \notin Stored => column[c] = NoSecret /\ remote[c] = NoSecret
    BY DEF IInv, InOnePlace, Stored
  <2>2. secret # NoSecret
    BY <1>2, NoneAssumption
  <2> QED
    BY <1>2, <1>3, <1>4, <2>1, <2>2 DEF IInv, InOnePlace, TypeOK, Stored
<1>7. SecretOf(c)' = secret
  BY <1>3, <1>4 DEF SecretOf, IInv, TypeOK
<1>8. ASSUME NEW d \in Stored', d # c
      PROVE  d \in Stored /\ SecretOf(d)' = SecretOf(d) /\ given'[d] = given[d]
  BY <1>4, <1>8 DEF Stored, SecretOf, IInv, TypeOK
<1>9. ASSUME NEW d \in Stored'
      PROVE  /\ SecretOf(d)'.sealed =>
                    \/ SecretOf(d)'.version \in Needed
                    \/ \E q \in Running : SecretOf(d)'.version = process[q].active
             /\ d \notin misplaced' =>
                    SecretOf(d)'.cred = d /\ SecretOf(d)'.n = given'[d]
  <2>1. CASE d = c
    BY <1>1, <1>2, <1>4, <1>7, <2>1 DEF IInv, TypeOK
  <2>2. CASE d # c
    BY <1>4, <1>8, <2>2 DEF Needed, IInv, LastGiven
  <2> QED
    BY <2>1, <2>2
<1> QED
  BY <1>4, <1>5, <1>6, <1>9, SecretsChange

LEMMA DeleteKeeps ==
    ASSUME IInv, NEW p \in Processes, NEW c \in Credentials, DeleteKey(p, c)
    PROVE  IInv'
<1> USE DEF Local, Infisical, NoRow
<1>1. /\ c \in Stored
      /\ remote' = [remote EXCEPT ![c] = IF backend[c] = Infisical THEN NoSecret ELSE @]
      /\ column' = [column EXCEPT ![c] = NoSecret]
      /\ backend' = [backend EXCEPT ![c] = NoRow]
      /\ UNCHANGED <<env, process, given, misplaced>>
  BY DEF DeleteKey
<1>2. Running' = Running
  BY <1>1 DEF Running
<1>3. TypeOK'
  BY <1>1, <1>2 DEF IInv, TypeOK
<1>4. InOnePlace'
  BY <1>1 DEF IInv, InOnePlace, TypeOK, Stored
<1>5. ASSUME NEW d \in Stored'
      PROVE  d \in Stored /\ SecretOf(d)' = SecretOf(d)
  BY <1>1 DEF Stored, SecretOf, IInv, TypeOK
<1>6. ASSUME NEW d \in Stored'
      PROVE  /\ SecretOf(d)'.sealed => SecretOf(d)'.version \in Needed
             /\ d \notin misplaced' =>
                    SecretOf(d)'.cred = d /\ SecretOf(d)'.n = given'[d]
  BY <1>1, <1>5 DEF Needed, IInv, LastGiven
<1> QED
  BY <1>1, <1>3, <1>4, <1>6, SecretsChange

LEMMA RewrapKeeps ==
    ASSUME IInv, NEW p \in Processes, NEW c \in Credentials, Rewrap(p, c)
    PROVE  IInv'
<1> USE DEF Local, Infisical, NoRow
<1>1. /\ p \in Running
      /\ backend[c] = Local
      /\ column' = [column EXCEPT ![c].version = process[p].active]
      /\ UNCHANGED <<env, process, backend, remote, given, misplaced>>
  BY DEF Rewrap
<1>2. c \in Stored /\ SecretOf(c) = column[c] /\ column[c] \in Secrets
  BY <1>1, SecretOfStored DEF Stored, SecretOf, IInv
<1>3. process[p].active \in Versions
  BY <1>1, NoneAssumption DEF IInv, TypeOK, Running, Environments
<1>4. /\ column'[c] \in Secrets
      /\ column'[c].version = process[p].active
      /\ column'[c].cred = column[c].cred /\ column'[c].n = column[c].n
  BY <1>1, <1>2, <1>3 DEF IInv, TypeOK, Secrets
<1>5. \A d \in Credentials \ {c} : column'[d] = column[d]
  BY <1>1 DEF IInv, TypeOK
<1>6. Running' = Running /\ Stored' = Stored
  BY <1>1 DEF Running, Stored
<1>7. TypeOK'
  <2>1. column' \in [Credentials -> Secrets \cup {NoSecret}]
    BY <1>1, <1>4, <1>5 DEF IInv, TypeOK
  <2> QED
    BY <1>1, <1>6, <2>1 DEF IInv, TypeOK
<1>8. InOnePlace'
  BY <1>1, <1>4, <1>5, NoneAssumption DEF IInv, InOnePlace
<1>9. ASSUME NEW d \in Stored'
      PROVE  /\ SecretOf(d)'.sealed =>
                    \/ SecretOf(d)'.version \in Needed
                    \/ \E q \in Running : SecretOf(d)'.version = process[q].active
             /\ d \notin misplaced' =>
                    SecretOf(d)'.cred = d /\ SecretOf(d)'.n = given'[d]
  <2>1. CASE d = c
    BY <1>1, <1>2, <1>4, <2>1 DEF SecretOf, IInv, LastGiven
  <2>2. CASE d # c
    <3>1. SecretOf(d)' = SecretOf(d) /\ d \in Stored
      BY <1>1, <1>5, <1>6, <2>2 DEF SecretOf, Stored
    <3> QED
      BY <1>1, <3>1 DEF Needed, IInv, LastGiven
  <2> QED
    BY <2>1, <2>2
<1> QED
  BY <1>1, <1>7, <1>8, <1>9, SecretsChange

LEMMA MisplaceKeeps ==
    ASSUME IInv, NEW c \in Credentials, NEW d \in Credentials, Misplace(c, d)
    PROVE  IInv'
<1> USE DEF Local, Infisical, NoRow
<1>1. /\ c # d /\ c \in Stored /\ d \in Stored /\ backend[c] = backend[d]
      /\ misplaced' = misplaced \cup {c}
      /\ UNCHANGED <<env, process, backend, given>>
      /\ \/ /\ backend[c] = Local
            /\ column' = [column EXCEPT ![c] = column[d]] /\ UNCHANGED remote
         \/ /\ backend[c] = Infisical
            /\ remote' = [remote EXCEPT ![c] = remote[d]] /\ UNCHANGED column
  BY DEF Misplace, Stored
<1>2. Running' = Running /\ Stored' = Stored
  BY <1>1 DEF Running, Stored
<1>3. TypeOK'
  BY <1>1, <1>2 DEF IInv, TypeOK
<1>4. InOnePlace'
  BY <1>1 DEF IInv, InOnePlace, TypeOK
<1>5. SecretOf(c)' = SecretOf(d)
  BY <1>1 DEF SecretOf, IInv, TypeOK
<1>6. \A e \in Stored : e # c => SecretOf(e)' = SecretOf(e)
  BY <1>1 DEF SecretOf, IInv, TypeOK, Stored
<1>7. ASSUME NEW e \in Stored'
      PROVE  /\ SecretOf(e)'.sealed => SecretOf(e)'.version \in Needed
             /\ e \notin misplaced' =>
                    SecretOf(e)'.cred = e /\ SecretOf(e)'.n = given'[e]
  BY <1>1, <1>2, <1>5, <1>6 DEF Needed, IInv, LastGiven
<1> QED
  BY <1>1, <1>3, <1>4, <1>7, SecretsChange

-----------------------------------------------------------------------------
(* The environments change and the secrets do not                          *)

LEMMA SecretsStay ==
    ASSUME UNCHANGED secrets
    PROVE  /\ Stored' = Stored /\ Needed' = Needed
           /\ InOnePlace => InOnePlace'
           /\ LastGiven => LastGiven'
<1>1. Stored' = Stored /\ \A c \in Stored : SecretOf(c)' = SecretOf(c)
  BY DEF secrets, Stored, SecretOf
<1>2. Needed' = Needed
  BY <1>1 DEF Needed
<1> QED
  BY <1>1, <1>2 DEF secrets, InOnePlace, LastGiven

LEMMA DeployKeeps ==
    ASSUME IInv, NEW p \in Processes, Start(p) \/ Stop(p)
    PROVE  IInv'
<1>1. UNCHANGED <<env, secrets>>
  BY DEF Start, Stop
<1>2. InOnePlace' /\ LastGiven' /\ Needed' = Needed
  BY <1>1, SecretsStay DEF IInv
<1>3. CASE Start(p)
  <2>1. process' = [process EXCEPT ![p] = env] /\ env \in Environments
    BY <1>3 DEF Start, IInv, TypeOK
  <2>2. Running' = Running \cup {p}
    BY <2>1, NoneAssumption DEF Running, IInv, TypeOK
  <2>3. process'[p] = env /\ \A q \in Running : q # p => process'[q] = process[q]
    BY <2>1 DEF Running, IInv, TypeOK
  <2>4. TypeOK'
    BY <1>1, <2>1, <2>2, <2>3 DEF IInv, TypeOK, secrets
  <2>5. Staged => RingsAgree'
    BY <1>1, <2>2, <2>3 DEF IInv, TypeOK, RingsAgree
  <2>6. Staged => RingsSuffice'
    BY <1>1, <1>2, <2>2, <2>3 DEF IInv, RingsSuffice
  <2> QED
    BY <1>2, <2>4, <2>5, <2>6 DEF IInv
<1>4. CASE Stop(p)
  <2>1. process' = [process EXCEPT ![p] = Stopped]
    BY <1>4 DEF Stop
  <2>2. Running' \subseteq Running /\ \A q \in Running' : process'[q] = process[q]
    BY <2>1 DEF Running, IInv, TypeOK
  <2>3. TypeOK'
    BY <1>1, <2>1, <2>2 DEF IInv, TypeOK, secrets
  <2>4. Staged => RingsAgree'
    BY <1>1, <2>2 DEF IInv, RingsAgree
  <2>5. Staged => RingsSuffice'
    BY <1>1, <1>2, <2>2 DEF IInv, RingsSuffice
  <2> QED
    BY <1>2, <2>3, <2>4, <2>5 DEF IInv
<1> QED
  BY <1>3, <1>4

\* The environment changes: still all that is needed is in it, and its active version
\* is one every process has.
LEMMA EnvironmentChanges ==
    ASSUME IInv, UNCHANGED <<process, secrets>>,
           env' \in Environments,
           env'.active \in env'.ring,
           Staged =>
              /\ Needed \subseteq env'.ring
              /\ \A p \in Running :
                    env'.active \in process[p].ring /\ process[p].active \in env'.ring
    PROVE  IInv'
<1>1. InOnePlace' /\ LastGiven' /\ Needed' = Needed
  BY SecretsStay DEF IInv
<1>2. Running' = Running
  BY DEF Running
<1>3. TypeOK'
  BY <1>2 DEF IInv, TypeOK, secrets
<1>4. Staged => RingsAgree' /\ RingsSuffice'
  BY <1>1, <1>2 DEF IInv, RingsAgree, RingsSuffice
<1> QED
  BY <1>1, <1>3, <1>4 DEF IInv

LEMMA OperatorKeeps ==
    ASSUME IInv,
           \/ SwitchBackend
           \/ \E v \in Versions : AddVersion(v) \/ Activate(v) \/ DropVersion(v)
    PROVE  IInv'
<1> USE DEF IInv, TypeOK, RingsAgree, RingsSuffice, Environments
<1>1. CASE SwitchBackend
  <2>1. /\ UNCHANGED <<process, secrets>> /\ env' \in Environments
        /\ env'.ring = env.ring /\ env'.active = env.active
    BY <1>1 DEF SwitchBackend, Local, Infisical
  <2> QED
    BY <2>1, EnvironmentChanges
<1>2. ASSUME NEW v \in Versions, AddVersion(v) PROVE IInv'
  <2>1. /\ UNCHANGED <<process, secrets>> /\ env' \in Environments
        /\ env'.ring = env.ring \cup {v} /\ env'.active = env.active
    BY <1>2 DEF AddVersion
  <2> QED
    BY <2>1, EnvironmentChanges
<1>3. ASSUME NEW v \in Versions, Activate(v) PROVE IInv'
  <2>1. /\ UNCHANGED <<process, secrets>> /\ env' \in Environments
        /\ env'.ring = env.ring /\ env'.active = v /\ v \in env.ring
        /\ Staged => \A p \in Running : v \in process[p].ring
    BY <1>3 DEF Activate
  <2> QED
    BY <2>1, EnvironmentChanges
<1>4. ASSUME NEW v \in Versions, DropVersion(v) PROVE IInv'
  <2>1. /\ UNCHANGED <<process, secrets>> /\ env' \in Environments
        /\ env'.ring = env.ring \ {v} /\ env'.active = env.active
        /\ v \notin Needed /\ v # env.active
        /\ \A p \in Running : process[p].active # v
    BY <1>4 DEF DropVersion, Unneeded
  <2> QED
    BY <2>1, EnvironmentChanges
<1> QED
  BY <1>1, <1>2, <1>3, <1>4

-----------------------------------------------------------------------------

LEMMA StepKeeps == IInv /\ [Next]_vars => IInv'
<1> SUFFICES ASSUME IInv, [Next]_vars PROVE IInv'
  OBVIOUS
<1>1. CASE Request
  BY <1>1, PutKeeps, DeleteKeeps DEF Request
<1>2. CASE Deploy
  BY <1>2, DeployKeeps DEF Deploy
<1>3. CASE Rotate
  BY <1>3, RewrapKeeps, OperatorKeeps DEF Rotate
<1>4. CASE SwitchBackend
  BY <1>4, OperatorKeeps
<1>5. CASE \E c, d \in Credentials : Misplace(c, d)
  BY <1>5, MisplaceKeeps
<1>6. CASE UNCHANGED vars
  <2>1. UNCHANGED <<env, process, secrets>>
    BY <1>6 DEF vars, secrets
  <2>2. Running' = Running
    BY <2>1 DEF Running
  <2> QED
    BY <2>1, <2>2, SecretsStay DEF IInv, TypeOK, RingsAgree, RingsSuffice, secrets
<1> QED
  BY <1>1, <1>2, <1>3, <1>4, <1>5, <1>6 DEF Next

LEMMA InvariantHolds == Spec => []IInv
<1>1. Init => IInv
  BY InitHolds
<1>2. IInv /\ [Next]_vars => IInv'
  BY StepKeeps
<1> QED
  BY <1>1, <1>2, PTL DEF Spec

\* Whatever the operator does in whichever order, as long as a version is activated
\* only once every running process has it, every running process reads the last key
\* given for every credential, unless its secret was overwritten by hand.
THEOREM EveryKeyReadableHolds ==
    ASSUME Staged
    PROVE  Spec => []EveryKeyReadable
<1>1. IInv => EveryKeyReadable
  <2> SUFFICES ASSUME IInv, NEW p \in Running, NEW c \in Stored \ misplaced
               PROVE  Reads(p, c) = [cred |-> c, n |-> given[c]]
    BY DEF EveryKeyReadable
  <2>1. SecretOf(c).cred = c /\ SecretOf(c).n = given[c]
    BY DEF IInv, LastGiven
  <2>2. SecretOf(c).sealed => SecretOf(c).version \in process[p].ring
    BY DEF IInv, RingsSuffice, Needed
  <2>3. SecretOf(c).sealed \in BOOLEAN
    BY SecretOfStored DEF IInv, Secrets
  <2> QED
    BY <2>1, <2>2, <2>3 DEF Reads, Opens, KeyIn, Identity
<1> QED
  BY <1>1, InvariantHolds, PTL

\* The types, and with them that no process is ever started with a ring that lacks its
\* active version, which get_keyring() would refuse.
THEOREM TypesHold == Spec => []TypeOK
<1>1. IInv => TypeOK
  BY DEF IInv
<1> QED
  BY <1>1, InvariantHolds, PTL

\* A secret is in the one place its row names, however often the setting is switched.
THEOREM InOnePlaceHolds == Spec => []InOnePlace
<1>1. IInv => InOnePlace
  BY DEF IInv
<1> QED
  BY <1>1, InvariantHolds, PTL

\* However secrets are rewrapped, copied over one another, and copied on, no process
\* gets another credential's key out of a sealed one.
THEOREM OnlyItsOwnKeyHolds == Spec => []OnlyItsOwnKey
<1>1. IInv => OnlyItsOwnKey
  BY DEF OnlyItsOwnKey, Reads, Opens, Identity, KeyIn
<1> QED
  BY <1>1, InvariantHolds, PTL
=============================================================================
