--------------------------- MODULE TurnKeys_proofs --------------------------
(***************************************************************************)
(* However the keys change between the reads of resolve(), and whichever   *)
(* turns overlap: a turn runs on a key of its model's provider, and the    *)
(* keys are preferred in the order the resolver promises.  For any number  *)
(* of keys, providers, models and turns.                                   *)
(***************************************************************************)
EXTENDS TurnKeys, TLAPS, WellFoundedInduction

\* Of the keys of a provider, one is the default at most.
OneDefault == \A j, k \in default : ProviderOf[j] = ProviderOf[k] => j = k

\* What has been watched for a turn is still so.
WatchedIsSo(t) ==
    turn[t].steady \subseteq active /\ turn[t].preferred \subseteq active \cap default

\* No key of the provider asked for has been active all the time.
NoneSteady(t) == \A k \in turn[t].steady : ~Fits(k, Wanted(t))

\* The model is the one wanted until resolve() switches, which it does only where there
\* is no key for that one and nobody asked for it by name.
SwitchesForWant(t) ==
    /\ turn[t].model \in Models
    /\ turn[t].asked \in {NoModel, turn[t].model}
    /\ turn[t].pc \in {"active", "other"} => turn[t].model = Wanted(t)
    /\ turn[t].pc = "other" => turn[t].asked = NoModel
    /\ turn[t].pc = "other" \/ turn[t].model # Wanted(t) => NoneSteady(t)

\* A turn names keys that have been created, and goes on with a session that is there.
KeysAreDrawn(t) ==
    /\ turn[t].key \in drawn \cup {NoKey}
    /\ turn[t].loaded # NoSession =>
        turn[t].loaded.key \in drawn \cup {NoKey} /\ session # NoSession

\* What the properties say of one turn, and that a key chosen is a key.
RightKey(t) ==
    /\ Chosen(t) =>
        /\ turn[t].key # NoKey /\ Fits(turn[t].key, turn[t].model)
        /\ \A d \in turn[t].preferred :
            Fits(d, turn[t].model) => turn[t].key \in {d, Pinned(t)}
    /\ OnProjectKey(t) => turn[t].model.provider = ProjectModel.provider
    /\ OnProjectKey(t) \/ turn[t].pc = "refuse" =>
        NoneSteady(t) /\ \A k \in turn[t].steady : ~Fits(k, turn[t].model)
    /\ (Chosen(t) \/ OnProjectKey(t)) /\ ~turn[t].title
        /\ kept # NoKey /\ Fits(kept, Wanted(t)) => turn[t].key = kept

TurnInv(t) ==
    Running(t) =>
        WatchedIsSo(t) /\ SwitchesForWant(t) /\ KeysAreDrawn(t) /\ RightKey(t)

\* Of turns that overlap none is alone, and a title is not saved.
AloneIsAlone ==
    /\ \A t, u \in Turns : Running(t) /\ Running(u) /\ t # u => ~turn[t].alone
    /\ \A t \in Turns : turn[t].pc = "save" => ~turn[t].title

\* The key of the session has been created.  While a turn is alone, the session keeps
\* the key it was loaded with, or that key has been deleted.
SessionWaits ==
    /\ session # NoSession => session.key \in drawn \cup {NoKey}
    /\ \A t \in Turns : Running(t) /\ turn[t].alone /\ turn[t].loaded # NoSession =>
        session.key = turn[t].loaded.key \/ turn[t].loaded.key \notin there

\* The key of the turn before is on the session, and every running turn has found it
\* there and active.
KeptIsPinned ==
    kept # NoKey =>
        /\ kept \in active /\ session # NoSession /\ session.key = kept
        /\ \A t \in Turns : Running(t) =>
            /\ kept \in turn[t].steady
            /\ ~turn[t].title => turn[t].loaded # NoSession /\ turn[t].loaded.key = kept

IInv ==
    /\ TypeOK
    /\ OneDefault /\ AloneIsAlone /\ SessionWaits /\ KeptIsPinned
    /\ \A t \in Turns : TurnInv(t)

-----------------------------------------------------------------------------
(* Helpers                                                                 *)

\* The oldest of some keys is one of them.
LEMMA MinIsMember ==
    ASSUME NEW S \in SUBSET Nat, S # {}
    PROVE  Min(S) \in S
<1> DEFINE Less == {ss \in Nat \X Nat : ss[1] < ss[2]}
<1>1. IsWellFoundedOn(Less, Nat)
  BY NatLessThanWellFounded DEF OpToRel
<1>2. \A x, y \in Nat : y < x => <<y, x>> \in Less
  OBVIOUS
<1> HIDE DEF Less
<1>3. PICK x \in S : \A y \in S : ~(<<y, x>> \in Less)
  BY <1>1, WFMin
<1>4. ASSUME NEW y \in S PROVE x =< y
  <2>1. ~(y < x)
    BY <1>2, <1>3
  <2> QED
    BY <2>1
<1> QED
  BY <1>4 DEF Min

\* Candidates are active keys of the provider; the one chosen is the pinned one, or
\* the default, or one of them.
LEMMA ChosenKey ==
    ASSUME TypeOK, OneDefault, NEW p, ActiveFor(p) # {}, NEW pinned
    PROVE  /\ Choose(ActiveFor(p), pinned) \in ActiveFor(p)
           /\ pinned \in ActiveFor(p) => Choose(ActiveFor(p), pinned) = pinned
           /\ \A d \in active \cap default :
                ProviderOf[d] = p => Choose(ActiveFor(p), pinned) \in {d, pinned}
<1> DEFINE candidates == ActiveFor(p)
<1>1. candidates \subseteq active /\ candidates \subseteq Keys /\ candidates \subseteq Nat
  BY KeysAssumption DEF ActiveFor, TypeOK
<1>2. \A k \in active : k \in candidates <=> ProviderOf[k] = p
  BY DEF ActiveFor, Of, TypeOK
<1> HIDE DEF candidates
<1>3. candidates # {}
  BY DEF candidates
<1>4. CASE pinned \in candidates
  BY <1>4 DEF Choose, candidates
<1>5. CASE pinned \notin candidates /\ candidates \cap default # {}
  <2>1. Min(candidates \cap default) \in candidates \cap default
    BY <1>1, <1>5, MinIsMember
  <2>2. Choose(candidates, pinned) = Min(candidates \cap default)
    BY <1>5 DEF Choose
  <2>3. ASSUME NEW d \in active \cap default, ProviderOf[d] = p
        PROVE  d = Min(candidates \cap default)
    BY <1>1, <1>2, <2>1, <2>3 DEF OneDefault
  <2> QED
    BY <1>5, <2>1, <2>2, <2>3 DEF candidates
<1>6. CASE pinned \notin candidates /\ candidates \cap default = {}
  <2>1. Min(candidates) \in candidates
    BY <1>1, <1>3, MinIsMember
  <2>2. Choose(candidates, pinned) = Min(candidates)
    BY <1>6 DEF Choose
  <2>3. \A d \in active \cap default : ProviderOf[d] # p
    BY <1>2, <1>6
  <2> QED
    BY <1>6, <2>1, <2>2, <2>3 DEF candidates
<1> QED
  BY <1>4, <1>5, <1>6

\* The model wanted is one of the models.
LEMMA WantedIsModel ==
    ASSUME TypeOK, NEW t \in Turns
    PROVE  Wanted(t) \in Models /\ Wanted(t).provider \in Providers
<1>1. turn[t].asked \in Models \cup {NoModel} /\ turn[t].loaded \in Sessions \cup {NoSession}
  BY DEF TypeOK, TurnStates
<1>2. Wanted(t) \in Models
  BY <1>1, ModelsAssumption DEF Wanted, Sessions
<1> QED
  BY <1>2 DEF Providers

LEMMA InitHolds == Init => IInv
<1> SUFFICES ASSUME Init PROVE IInv
  OBVIOUS
<1>1. TypeOK
  BY ModelsAssumption DEF Init, TypeOK, TurnStates, Idle, Answers
<1>2. \A t \in Turns : ~Running(t) /\ turn[t].pc = "idle" /\ turn[t].loaded = NoSession
                       /\ turn[t].key = NoKey
  BY DEF Init, Idle, Running
<1> QED
  BY <1>1, <1>2 DEF Init, IInv, OneDefault, TurnInv, AloneIsAlone, SessionWaits, KeptIsPinned

-----------------------------------------------------------------------------
(* What the others do leaves a turn right                                  *)

\* A turn does not move; it may see that what was watched for it is over.
Unmoved(t) ==
    /\ turn'[t].pc = turn[t].pc /\ turn'[t].title = turn[t].title
    /\ turn'[t].asked = turn[t].asked /\ turn'[t].loaded = turn[t].loaded
    /\ turn'[t].model = turn[t].model /\ turn'[t].key = turn[t].key
    /\ turn'[t].steady \subseteq turn[t].steady
    /\ turn'[t].preferred \subseteq turn[t].preferred

LEMMA OthersGoOn ==
    ASSUME NEW t \in Turns, TurnInv(t), Unmoved(t),
           Running(t) => WatchedIsSo(t)',
           drawn \subseteq drawn', session # NoSession => session' # NoSession,
           Running(t) => kept' \in {kept, NoKey}
    PROVE  TurnInv(t)'
<1>1. Wanted(t)' = Wanted(t) /\ Pinned(t)' = Pinned(t) /\ Running(t)' = Running(t)
      /\ Chosen(t)' = Chosen(t) /\ OnProjectKey(t)' = OnProjectKey(t)
  BY DEF Unmoved, Wanted, Pinned, Running, Chosen, OnProjectKey
<1>2. NoneSteady(t) => NoneSteady(t)'
  BY <1>1 DEF Unmoved, NoneSteady, Fits
<1> SUFFICES ASSUME Running(t)
             PROVE  WatchedIsSo(t)' /\ SwitchesForWant(t)' /\ KeysAreDrawn(t)' /\ RightKey(t)'
  BY <1>1 DEF TurnInv
<1>3. SwitchesForWant(t)'
  BY <1>1, <1>2 DEF Unmoved, TurnInv, SwitchesForWant
<1>4. KeysAreDrawn(t)'
  BY DEF Unmoved, TurnInv, KeysAreDrawn
<1>5. RightKey(t)'
  BY <1>1, <1>2 DEF Unmoved, TurnInv, RightKey, Fits
<1> QED
  BY <1>3, <1>4, <1>5

\* The keys change under the turns, and some of these end.
LEMMA KeysChange ==
    ASSUME IInv, NEW act, NEW def, NEW ended \in SUBSET Turns, NEW answer \in Answers,
           turn' = [t \in Turns |-> turn'[t]],
           \A t \in ended : turn'[t] = Idle(answer),
           \A t \in Turns \ ended : turn'[t] = Watched(act, def)[t],
           active' = act, default' = def, kept' = IF kept \in act THEN kept ELSE NoKey,
           act \cup def \subseteq there', there' \subseteq drawn',
           drawn \subseteq drawn', drawn' \subseteq Keys,
           there' \cap drawn \subseteq there, OneDefault',
           \/ UNCHANGED session
           \/ /\ session # NoSession /\ session.key \notin there'
              /\ session' = [session EXCEPT !.key = NoKey]
    PROVE  IInv'
<1>1. ASSUME NEW t \in Turns, t \in ended
      PROVE  ~Running(t)' /\ turn'[t] \in TurnStates /\ turn'[t].preferred = {}
             /\ turn'[t].pc = "idle"
  <2>1. turn'[t] = Idle(answer)
    BY <1>1
  <2> QED
    BY <2>1, ModelsAssumption DEF Idle, Running, TurnStates
<1>2. ASSUME NEW t \in Turns, t \notin ended
      PROVE  /\ Unmoved(t) /\ turn'[t].alone = turn[t].alone
             /\ turn'[t] \in TurnStates /\ turn'[t].preferred \subseteq turn'[t].steady
             /\ Running(t)' = Running(t)
             /\ Running(t) => /\ turn'[t].steady = turn[t].steady \cap act
                              /\ turn'[t].preferred = turn[t].preferred \cap act \cap def
  <2>1. turn'[t] = IF Running(t)
                   THEN [turn[t] EXCEPT !.steady = @ \cap act,
                                        !.preferred = @ \cap act \cap def]
                   ELSE turn[t]
    BY <1>2 DEF Watched
  <2>2. turn[t] \in TurnStates /\ turn[t].preferred \subseteq turn[t].steady
    BY DEF IInv, TypeOK
  <2>3. CASE Running(t)
    <3>1. turn'[t] = [turn[t] EXCEPT !.steady = @ \cap act,
                                     !.preferred = @ \cap act \cap def]
      BY <2>1, <2>3
    <3>2. turn'[t] \in TurnStates
      BY ZenonT(90), <2>2, <3>1 DEF TurnStates
    <3>3. /\ Unmoved(t) /\ turn'[t].alone = turn[t].alone
          /\ turn'[t].steady = turn[t].steady \cap act
          /\ turn'[t].preferred = turn[t].preferred \cap act \cap def
      <4>1. /\ turn'[t].steady = turn[t].steady \cap act
            /\ turn'[t].preferred = turn[t].preferred \cap act \cap def
        BY <2>2, <3>1 DEF TurnStates
      <4>2. /\ turn'[t].pc = turn[t].pc /\ turn'[t].title = turn[t].title
            /\ turn'[t].asked = turn[t].asked /\ turn'[t].loaded = turn[t].loaded
            /\ turn'[t].model = turn[t].model /\ turn'[t].key = turn[t].key
            /\ turn'[t].alone = turn[t].alone
        BY <2>2, <3>1 DEF TurnStates
      <4> QED
        BY <4>1, <4>2 DEF Unmoved
    <3> QED
      BY <2>2, <3>2, <3>3 DEF Unmoved, Running
  <2>4. CASE ~Running(t)
    BY <2>1, <2>2, <2>4 DEF Unmoved, Running
  <2> QED
    BY <2>3, <2>4
<1>3. /\ session' \in Sessions \cup {NoSession}
      /\ session # NoSession =>
            session' # NoSession /\ session'.key \in {session.key, NoKey}
      /\ session' # NoSession => session # NoSession
      /\ session # NoSession /\ session'.key # session.key => session.key \notin there'
  BY AbsentAssumption DEF IInv, TypeOK, Sessions
<1>4. TypeOK'
  BY <1>1, <1>2, <1>3 DEF IInv, TypeOK
<1>5. AloneIsAlone'
  BY <1>1, <1>2 DEF IInv, AloneIsAlone, Unmoved
<1>6. SessionWaits'
  <2>1. session' # NoSession => session'.key \in drawn' \cup {NoKey}
    BY <1>3 DEF IInv, SessionWaits
  <2>2. ASSUME NEW t \in Turns, Running(t)', turn'[t].alone, turn'[t].loaded # NoSession
        PROVE  session'.key = turn'[t].loaded.key \/ turn'[t].loaded.key \notin there'
    <3>1. /\ Running(t) /\ turn[t].alone /\ turn'[t].loaded = turn[t].loaded
          /\ turn[t].loaded # NoSession
      BY <1>1, <1>2, <2>2 DEF Unmoved
    <3>2. session # NoSession /\ turn[t].loaded.key \in drawn \cup {NoKey}
      BY <3>1 DEF IInv, TurnInv, KeysAreDrawn
    <3>3. session.key = turn[t].loaded.key \/ turn[t].loaded.key \notin there
      BY <3>1 DEF IInv, SessionWaits
    <3>4. NoKey \notin there'
      BY KeysAssumption
    <3> QED
      BY <1>3, <3>1, <3>2, <3>3, <3>4
  <2> QED
    BY <2>1, <2>2 DEF SessionWaits
<1>7. KeptIsPinned'
  <2> SUFFICES ASSUME kept' # NoKey PROVE KeptIsPinned'
    BY DEF KeptIsPinned
  <2>1. kept' = kept /\ kept \in act
    OBVIOUS
  <2>2. session' # NoSession /\ session'.key = kept
    BY <1>3, <2>1 DEF IInv, KeptIsPinned
  <2>3. ASSUME NEW t \in Turns, Running(t)'
        PROVE  /\ kept \in turn'[t].steady
               /\ ~turn'[t].title =>
                    turn'[t].loaded # NoSession /\ turn'[t].loaded.key = kept
    BY <1>1, <1>2, <2>1, <2>3 DEF IInv, KeptIsPinned, Unmoved
  <2> QED
    BY <2>1, <2>2, <2>3 DEF KeptIsPinned
<1>8. ASSUME NEW t \in Turns PROVE TurnInv(t)'
  <2>1. CASE t \in ended
    BY <1>1, <2>1 DEF TurnInv
  <2>2. CASE t \notin ended
    <3>1. Running(t) => WatchedIsSo(t)'
      BY <1>2, <2>2 DEF WatchedIsSo
    <3> QED
      BY <1>2, <1>3, <2>2, <3>1, OthersGoOn DEF IInv
  <2> QED
    BY <2>1, <2>2
<1> QED
  BY <1>4, <1>5, <1>6, <1>7, <1>8 DEF IInv

-----------------------------------------------------------------------------
(* The student's requests                                                  *)

\* As KeysChange, for a request of the vault, which ends no turn.
LEMMA VaultKeeps ==
    ASSUME IInv, NEW rows, NEW act, NEW def, KeysBecome(rows, act, def),
           act \cup def \subseteq rows, rows \subseteq drawn',
           drawn \subseteq drawn', drawn' \subseteq Keys,
           rows \cap drawn \subseteq there,
           \A j, k \in def : ProviderOf[j] = ProviderOf[k] => j = k,
           \/ UNCHANGED session
           \/ /\ session # NoSession /\ session.key \notin rows
              /\ session' = [session EXCEPT !.key = NoKey]
    PROVE  IInv'
<1>1. /\ there' = rows /\ active' = act /\ default' = def
      /\ kept' = IF kept \in act THEN kept ELSE NoKey
      /\ turn' = Watched(act, def)
  BY DEF KeysBecome
<1>2. turn' = [t \in Turns |-> turn'[t]]
  BY <1>1 DEF Watched
<1>3. "none" \in Answers
  BY DEF Answers
<1>4. OneDefault'
  BY <1>1 DEF OneDefault
<1> DEFINE ended == {}
<1>5. /\ ended \in SUBSET Turns
      /\ \A t \in ended : turn'[t] = Idle("none")
      /\ \A t \in Turns \ ended : turn'[t] = Watched(act, def)[t]
  BY <1>1
<1>6. /\ act \cup def \subseteq there' /\ there' \subseteq drawn'
      /\ there' \cap drawn \subseteq there
      /\ \/ UNCHANGED session
         \/ /\ session # NoSession /\ session.key \notin there'
            /\ session' = [session EXCEPT !.key = NoKey]
  BY <1>1
<1>7. active' = act /\ default' = def /\ kept' = IF kept \in act THEN kept ELSE NoKey
  BY <1>1
<1> HIDE DEF ended
<1> QED
  BY <1>2, <1>3, <1>4, <1>5, <1>6, <1>7, KeysChange

LEMMA CreateKeyKeeps ==
    ASSUME IInv, CreateKey
    PROVE  IInv'
<1>1. PICK k \in Keys \ drawn, makeDefault \in BOOLEAN :
        /\ drawn' = drawn \cup {k}
        /\ KeysBecome(there \cup {k}, active \cup {k},
                      IF makeDefault \/ Of(ProviderOf[k]) = {}
                      THEN (default \ Of(ProviderOf[k])) \cup {k} ELSE default)
        /\ UNCHANGED session
  BY DEF CreateKey
<1> DEFINE def == IF makeDefault \/ Of(ProviderOf[k]) = {}
                  THEN (default \ Of(ProviderOf[k])) \cup {k} ELSE default
<1>2. /\ active \cup default \subseteq there /\ there \subseteq drawn /\ drawn \subseteq Keys
  BY DEF IInv, TypeOK
<1>3. def \subseteq there \cup {k}
  BY <1>2
<1>4. \A i, j \in def : ProviderOf[i] = ProviderOf[j] => i = j
  <2>1. \A i \in default : i \in Of(ProviderOf[k]) <=> ProviderOf[i] = ProviderOf[k]
    BY <1>2 DEF Of
  <2>2. \A i, j \in (default \ Of(ProviderOf[k])) \cup {k} :
            ProviderOf[i] = ProviderOf[j] => i = j
    BY <2>1 DEF IInv, OneDefault
  <2> QED
    BY <2>2 DEF IInv, OneDefault
<1>5. /\ KeysBecome(there \cup {k}, active \cup {k}, def)
      /\ drawn' = drawn \cup {k} /\ UNCHANGED session
  BY <1>1
<1> HIDE DEF def
<1> QED
  BY <1>2, <1>3, <1>4, <1>5, VaultKeeps

LEMMA PreferKeyKeeps ==
    ASSUME IInv, PreferKey
    PROVE  IInv'
<1>1. PICK k \in there \ default :
        KeysBecome(there, active, (default \ Of(ProviderOf[k])) \cup {k})
  BY DEF PreferKey
<1> DEFINE def == (default \ Of(ProviderOf[k])) \cup {k}
<1>2. active \cup default \subseteq there /\ there \subseteq drawn /\ drawn \subseteq Keys
  BY DEF IInv, TypeOK
<1>3. def \subseteq there /\ \A i, j \in def : ProviderOf[i] = ProviderOf[j] => i = j
  BY <1>2 DEF IInv, OneDefault, Of
<1>4. UNCHANGED <<drawn, session>> /\ KeysBecome(there, active, def)
  BY <1>1 DEF PreferKey
<1> HIDE DEF def
<1> QED
  BY <1>2, <1>3, <1>4, VaultKeeps

LEMMA StatusKeeps ==
    ASSUME IInv, ReplaceKey \/ CheckRefusesKey
    PROVE  IInv'
<1>1. PICK act \in SUBSET there : KeysBecome(there, act, default)
  BY DEF ReplaceKey, CheckRefusesKey, IInv, TypeOK
<1>2. UNCHANGED <<drawn, session>>
  BY DEF ReplaceKey, CheckRefusesKey
<1> QED
  BY <1>1, <1>2, VaultKeeps DEF IInv, TypeOK, OneDefault

LEMMA DeleteKeyKeeps ==
    ASSUME IInv, DeleteKey
    PROVE  IInv'
<1>1. PICK k \in there :
        /\ KeysBecome(there \ {k}, active \ {k}, (default \ {k}) \cup Heirs(k))
        /\ session' = IF session # NoSession /\ session.key = k
                      THEN [session EXCEPT !.key = NoKey] ELSE session
  BY DEF DeleteKey
<1>2. drawn' = drawn
  BY DEF DeleteKey
<1>3. active \cup default \subseteq there /\ there \subseteq drawn /\ drawn \subseteq Keys
  BY DEF IInv, TypeOK
<1>4. ASSUME NEW h \in Heirs(k)
      PROVE  /\ h \in active \ {k} /\ ProviderOf[h] = ProviderOf[k] /\ k \in default
             /\ Heirs(k) = {h}
  <2> DEFINE others == (active \cap Of(ProviderOf[k])) \ {k}
  <2>1. others \subseteq Nat
    BY <1>3, KeysAssumption
  <2>2. k \in default /\ others # {} /\ Heirs(k) = {Min(others)}
    BY <1>4 DEF Heirs
  <2> HIDE DEF others
  <2>3. Min(others) \in others
    BY <2>1, <2>2, MinIsMember
  <2> QED
    BY <1>4, <2>2, <2>3 DEF others, Of
<1> DEFINE def == (default \ {k}) \cup Heirs(k)
<1>5. def \subseteq there \ {k}
  BY <1>3, <1>4
<1>6. \A i, j \in def : ProviderOf[i] = ProviderOf[j] => i = j
  BY <1>4 DEF IInv, OneDefault
<1> HIDE DEF def
<1> QED
  BY <1>1, <1>2, <1>3, <1>5, <1>6, VaultKeeps DEF def

-----------------------------------------------------------------------------
(* A turn's own steps                                                      *)

\* One turn ends, or goes on with what it has loaded and been watched for, and the
\* keys and the session stay.
LEMMA OneTurnMoves ==
    ASSUME IInv, NEW t \in Turns, NEW new \in TurnStates, Running(t),
           turn' = [turn EXCEPT ![t] = new],
           UNCHANGED <<keys, session, kept>>,
           \/ new.pc = "idle" /\ new.preferred = {}
           \/ /\ new.title = turn[t].title /\ new.loaded = turn[t].loaded
              /\ new.alone = turn[t].alone /\ new.steady = turn[t].steady
              /\ new.preferred = turn[t].preferred
              /\ new.pc = "save" => ~new.title
              /\ TurnInv(t)'
    PROVE  IInv'
<1>1. /\ UNCHANGED <<drawn, there, active, default, session, kept>>
      /\ turn'[t] = new /\ \A u \in Turns : u # t => turn'[u] = turn[u]
  BY DEF keys, IInv, TypeOK
<1>2. TypeOK'
  BY <1>1 DEF IInv, TypeOK
<1>3. OneDefault'
  BY <1>1 DEF IInv, OneDefault
<1>4. AloneIsAlone'
  BY <1>1 DEF IInv, AloneIsAlone, Running
<1>5. SessionWaits'
  BY <1>1 DEF IInv, SessionWaits, Running
<1>6. KeptIsPinned'
  BY <1>1 DEF IInv, KeptIsPinned, Running
<1>7. ASSUME NEW u \in Turns PROVE TurnInv(u)'
  <2>1. CASE u = t
    BY <1>1, <2>1 DEF TurnInv, Running
  <2>2. CASE u # t
    BY <1>1, <2>2, OthersGoOn DEF IInv, Unmoved, TurnInv, WatchedIsSo
  <2> QED
    BY <2>1, <2>2
<1> QED
  BY <1>2, <1>3, <1>4, <1>5, <1>6, <1>7 DEF IInv

\* A turn that ends keeps nothing of what it did.
LEMMA IdleIsTurn ==
    ASSUME NEW answer \in Answers
    PROVE  /\ Idle(answer) \in TurnStates
           /\ Idle(answer).pc = "idle" /\ Idle(answer).preferred = {}
BY ModelsAssumption DEF Idle, TurnStates

LEMMA EndKeeps ==
    ASSUME IInv, NEW t \in Turns, NEW answer \in Answers, Running(t), Ends(t, answer),
           UNCHANGED <<keys, session, kept>>
    PROVE  IInv'
BY IdleIsTurn, OneTurnMoves DEF Ends

\* A turn goes on: it may be at another step, on another model or key.
GoesOn(t, new) ==
    /\ new.title = turn[t].title /\ new.asked = turn[t].asked
    /\ new.loaded = turn[t].loaded /\ new.alone = turn[t].alone
    /\ new.steady = turn[t].steady /\ new.preferred = turn[t].preferred

\* A turn that goes on wants, pins and is watched for what it was.
LEMMA StillWants ==
    ASSUME IInv, NEW t \in Turns, NEW new \in TurnStates, GoesOn(t, new), Running(t),
           turn' = [turn EXCEPT ![t] = new],
           UNCHANGED <<keys, session, kept>>
    PROVE  /\ turn'[t] = new
           /\ Wanted(t)' = Wanted(t) /\ Pinned(t)' = Pinned(t)
           /\ NoneSteady(t)' <=> NoneSteady(t)
           /\ WatchedIsSo(t)'
           /\ UNCHANGED <<drawn, there, active, default>>
<1>1. turn'[t] = new /\ UNCHANGED <<drawn, there, active, default>>
  BY DEF IInv, TypeOK, keys
<1>2. Wanted(t)' = Wanted(t) /\ Pinned(t)' = Pinned(t)
  BY <1>1 DEF GoesOn, Wanted, Pinned
<1>3. NoneSteady(t)' <=> NoneSteady(t)
  BY <1>1, <1>2 DEF GoesOn, NoneSteady, Fits
<1>4. WatchedIsSo(t)'
  BY <1>1 DEF GoesOn, IInv, TurnInv, WatchedIsSo
<1> QED
  BY <1>1, <1>2, <1>3, <1>4

\* No key for the model, nor for the one wanted: the project's key, or none.
LEMMA WithoutKey ==
    ASSUME IInv, NEW t \in Turns, NEW new \in TurnStates, GoesOn(t, new), Running(t),
           turn' = [turn EXCEPT ![t] = new],
           UNCHANGED <<keys, session, kept>>,
           new.pc = AfterNoCandidate(t), new.model = turn[t].model,
           new.key \in {turn[t].key, NoKey},
           NoneSteady(t), \A k \in turn[t].steady : ~Fits(k, turn[t].model)
    PROVE  IInv'
<1> USE StillWants
<1>1. /\ new.pc \in {"graph", "refuse"}
      /\ new.pc = "graph" => turn[t].model.provider = ProjectModel.provider
  BY DEF AfterNoCandidate
<1>2. SwitchesForWant(t)'
  BY ZenonT(90), <1>1 DEF GoesOn, IInv, TurnInv, SwitchesForWant
<1>3. KeysAreDrawn(t)'
  BY ZenonT(90) DEF GoesOn, IInv, TurnInv, KeysAreDrawn
<1>4. kept # NoKey => ~Fits(kept, Wanted(t))
  BY DEF IInv, KeptIsPinned, NoneSteady
<1>5. RightKey(t)'
  BY ZenonT(90), <1>1, <1>4 DEF GoesOn, RightKey, Chosen, OnProjectKey, Fits
<1>6. TurnInv(t)'
  BY <1>2, <1>3, <1>5 DEF TurnInv
<1> QED
  BY <1>1, <1>6, OneTurnMoves DEF GoesOn

\* Candidates were read.
LEMMA SettleKeeps ==
    ASSUME IInv, NEW t \in Turns, turn[t].pc \in {"active", "again"}, Settle(t),
           UNCHANGED <<keys, session, kept>>
    PROVE  IInv'
<1> DEFINE candidates == ActiveFor(turn[t].model.provider)
           new == [turn[t] EXCEPT
                    !.pc = IF candidates # {} THEN "reveal" ELSE AfterNoCandidate(t),
                    !.key = IF candidates # {} THEN Choose(candidates, Pinned(t))
                                               ELSE NoKey]
<1>1. turn' = [turn EXCEPT ![t] = new]
  BY DEF Settle
<1>2. Running(t) /\ turn[t] \in TurnStates
  BY DEF Running, IInv, TypeOK
<1>3. /\ candidates \subseteq active /\ active \subseteq drawn /\ drawn \subseteq Keys
      /\ \A k \in active : k \in candidates <=> Fits(k, turn[t].model)
  BY DEF ActiveFor, Of, Fits, IInv, TypeOK
<1>4. turn[t].steady \subseteq active /\ turn[t].preferred \subseteq active \cap default
  BY <1>2 DEF IInv, TurnInv, WatchedIsSo
<1>5. turn[t].model # Wanted(t) => NoneSteady(t)
  BY <1>2 DEF IInv, TurnInv, SwitchesForWant
<1>6. AfterNoCandidate(t) \in {"graph", "refuse"}
  BY DEF AfterNoCandidate
<1>7. CASE candidates = {}
  <2>1. new = [turn[t] EXCEPT !.pc = AfterNoCandidate(t), !.key = NoKey]
    BY <1>7
  <2>2. new \in TurnStates /\ GoesOn(t, new) /\ new.model = turn[t].model
        /\ new.pc = AfterNoCandidate(t) /\ new.key = NoKey
    BY ZenonT(90), <1>2, <1>6, <2>1 DEF TurnStates, GoesOn
  <2>3. NoneSteady(t) /\ \A k \in turn[t].steady : ~Fits(k, turn[t].model)
    BY <1>3, <1>4, <1>5, <1>7 DEF NoneSteady, Fits
  <2> HIDE DEF new, candidates
  <2> QED
    BY <1>1, <1>2, <2>2, <2>3, WithoutKey
<1>8. CASE candidates # {}
  <2> DEFINE key == Choose(candidates, Pinned(t))
  <2>1. /\ key \in candidates
        /\ Pinned(t) \in candidates => key = Pinned(t)
        /\ \A d \in turn[t].preferred : Fits(d, turn[t].model) => key \in {d, Pinned(t)}
    BY <1>4, <1>8, ChosenKey DEF IInv, Fits
  <2>2. new = [turn[t] EXCEPT !.pc = "reveal", !.key = key]
    BY <1>8
  <2> HIDE DEF new, key, candidates
  <2>3. key \in Keys /\ key # NoKey /\ key \in drawn /\ Fits(key, turn[t].model)
    BY <1>3, <2>1, KeysAssumption
  <2>4. new \in TurnStates
    BY <1>2, <2>2, <2>3 DEF TurnStates
  <2>5. GoesOn(t, new) /\ new.model = turn[t].model /\ new.pc = "reveal" /\ new.key = key
    BY <1>2, <2>2 DEF TurnStates, GoesOn
  <2>6. ASSUME kept # NoKey, Fits(kept, Wanted(t)), ~turn[t].title
        PROVE  key = kept
    <3>1. kept \in turn[t].steady /\ turn[t].loaded # NoSession /\ turn[t].loaded.key = kept
      BY <1>2, <2>6 DEF IInv, KeptIsPinned
    <3>2. turn[t].model = Wanted(t)
      BY <1>5, <2>6, <3>1 DEF NoneSteady
    <3>3. kept \in candidates /\ Pinned(t) = kept
      BY <1>3, <1>4, <2>6, <3>1, <3>2 DEF Pinned
    <3> QED
      BY <2>1, <3>3
  <2>7. /\ turn'[t] = new /\ Wanted(t)' = Wanted(t) /\ Pinned(t)' = Pinned(t)
        /\ NoneSteady(t)' <=> NoneSteady(t)
        /\ WatchedIsSo(t)' /\ UNCHANGED <<drawn, there, active, default>>
    BY <1>1, <1>2, <2>4, <2>5, StillWants
  <2>8. SwitchesForWant(t)'
    BY <1>2, <2>5, <2>7 DEF GoesOn, IInv, TurnInv, SwitchesForWant
  <2>9. KeysAreDrawn(t)'
    BY <1>2, <2>3, <2>5, <2>7 DEF GoesOn, IInv, TurnInv, KeysAreDrawn
  <2>10. RightKey(t)'
    BY <2>1, <2>3, <2>5, <2>6, <2>7 DEF GoesOn, RightKey, Chosen, OnProjectKey, Fits
  <2>11. TurnInv(t)'
    BY <2>7, <2>8, <2>9, <2>10 DEF TurnInv
  <2> QED
    BY <1>1, <1>2, <2>4, <2>5, <2>11, OneTurnMoves DEF GoesOn
<1> QED
  BY <1>7, <1>8

\* A turn goes to a step at which nothing is chosen.
LEMMA GotoKeeps ==
    ASSUME IInv, NEW t \in Turns, Running(t), NEW pc \in {"other", "graph", "save"},
           Goto(t, pc), UNCHANGED <<keys, session, kept>>,
           pc = "other" =>
                /\ turn[t].model = Wanted(t) /\ turn[t].asked = NoModel /\ NoneSteady(t),
           pc = "graph" => turn[t].key # NoKey,
           pc = "save" => ~turn[t].title
    PROVE  IInv'
<1> DEFINE new == [turn[t] EXCEPT !.pc = pc]
<1>1. turn' = [turn EXCEPT ![t] = new] /\ turn[t] \in TurnStates
  BY DEF Goto, IInv, TypeOK
<1>2. new \in TurnStates /\ GoesOn(t, new) /\ new.pc = pc
      /\ new.model = turn[t].model /\ new.key = turn[t].key
  BY <1>1 DEF TurnStates, GoesOn
<1> HIDE DEF new
<1>3. /\ turn'[t] = new /\ Wanted(t)' = Wanted(t)
      /\ NoneSteady(t)' <=> NoneSteady(t)
      /\ WatchedIsSo(t)' /\ UNCHANGED <<drawn, there, active, default>>
  BY <1>1, <1>2, StillWants
<1>4. SwitchesForWant(t)'
  BY <1>2, <1>3 DEF GoesOn, IInv, TurnInv, SwitchesForWant
<1>5. KeysAreDrawn(t)'
  BY <1>2, <1>3 DEF GoesOn, IInv, TurnInv, KeysAreDrawn
<1>6. RightKey(t)'
  BY <1>2, <1>3 DEF RightKey, Chosen, OnProjectKey
<1>7. TurnInv(t)'
  BY <1>3, <1>4, <1>5, <1>6 DEF TurnInv
<1> QED
  BY <1>1, <1>2, <1>7, OneTurnMoves DEF GoesOn

LEMMA ReadActiveKeeps ==
    ASSUME IInv, NEW t \in Turns, ReadActive(t) \/ ReadAgain(t)
    PROVE  IInv'
<1>1. CASE Settle(t)
  BY <1>1, SettleKeeps DEF ReadActive, ReadAgain
<1>2. CASE ~Settle(t)
  <2>1. /\ turn[t].pc = "active" /\ ActiveFor(turn[t].model.provider) = {}
        /\ turn[t].asked = NoModel /\ Goto(t, "other") /\ UNCHANGED <<keys, session, kept>>
    BY <1>2 DEF ReadActive, ReadAgain
  <2>2. Running(t) /\ turn[t].model = Wanted(t)
    BY <2>1 DEF Running, IInv, TurnInv, SwitchesForWant
  <2>3. NoneSteady(t)
    BY <2>1, <2>2 DEF IInv, TypeOK, TurnInv, WatchedIsSo, NoneSteady, Fits, ActiveFor, Of
  <2> QED
    BY <2>1, <2>2, <2>3, GotoKeeps
<1> QED
  BY <1>1, <1>2

LEMMA ReadOtherKeeps ==
    ASSUME IInv, NEW t \in Turns, ReadOther(t)
    PROVE  IInv'
<1> DEFINE others == {ProviderOf[k] : k \in active} \ {turn[t].model.provider}
<1>1. /\ turn[t].pc = "other" /\ UNCHANGED <<keys, session, kept>>
      /\ Running(t) /\ turn[t] \in TurnStates
      /\ turn[t].model = Wanted(t) /\ turn[t].asked = NoModel /\ NoneSteady(t)
  BY DEF ReadOther, Running, IInv, TypeOK, TurnInv, SwitchesForWant
<1>2. ASSUME NEW p \in others,
             turn' = [turn EXCEPT ![t].pc = "again", ![t].model = DefaultModel[p]]
      PROVE  IInv'
  <2> DEFINE new == [turn[t] EXCEPT !.pc = "again", !.model = DefaultModel[p]]
  <2>1. turn' = [turn EXCEPT ![t] = new]
    BY <1>1, <1>2 DEF IInv, TypeOK
  <2>2. p \in Providers /\ DefaultModel[p] \in Models
    BY <1>2, KeysAssumption, ModelsAssumption DEF IInv, TypeOK
  <2>3. new \in TurnStates /\ GoesOn(t, new) /\ new.pc = "again"
        /\ new.model = DefaultModel[p] /\ new.key = turn[t].key
    BY <1>1, <2>2 DEF TurnStates, GoesOn
  <2> HIDE DEF new
  <2>4. /\ turn'[t] = new /\ Wanted(t)' = Wanted(t)
        /\ NoneSteady(t)' <=> NoneSteady(t)
        /\ WatchedIsSo(t)' /\ UNCHANGED <<drawn, there, active, default>>
    BY <1>1, <2>1, <2>3, StillWants
  <2>5. SwitchesForWant(t)'
    BY <1>1, <2>2, <2>3, <2>4 DEF GoesOn, SwitchesForWant
  <2>6. KeysAreDrawn(t)'
    BY <1>1, <2>3, <2>4 DEF GoesOn, IInv, TurnInv, KeysAreDrawn
  <2>7. RightKey(t)'
    BY <2>3, <2>4 DEF RightKey, Chosen, OnProjectKey
  <2>8. TurnInv(t)'
    BY <2>4, <2>5, <2>6, <2>7 DEF TurnInv
  <2> QED
    BY <1>1, <2>1, <2>3, <2>8, OneTurnMoves DEF GoesOn
<1>3. ASSUME Goto(t, AfterNoCandidate(t))
      PROVE  IInv'
  <2> DEFINE new == [turn[t] EXCEPT !.pc = AfterNoCandidate(t)]
  <2>1. turn' = [turn EXCEPT ![t] = new]
    BY <1>1, <1>3 DEF Goto, IInv, TypeOK
  <2>2. new \in TurnStates /\ GoesOn(t, new) /\ new.pc = AfterNoCandidate(t)
        /\ new.model = turn[t].model /\ new.key = turn[t].key
    BY <1>1 DEF AfterNoCandidate, TurnStates, GoesOn
  <2>3. \A k \in turn[t].steady : ~Fits(k, turn[t].model)
    BY <1>1 DEF NoneSteady
  <2> HIDE DEF new
  <2> QED
    BY <1>1, <2>1, <2>2, <2>3, WithoutKey
<1> QED
  BY <1>2, <1>3 DEF ReadOther

LEMMA OtherStepsKeep ==
    ASSUME IInv, NEW t \in Turns,
           Refuse(t) \/ Reveal(t) \/ EndTurn(t) \/ SaveFails(t) \/ Fail(t)
    PROVE  IInv'
<1>1. Running(t) /\ UNCHANGED <<keys, session, kept>>
  BY DEF Refuse, Reveal, EndTurn, SaveFails, Fail, Running
<1>2. CASE \E answer \in Answers : Ends(t, answer)
  BY <1>1, <1>2, EndKeeps
<1>3. CASE turn[t].pc = "reveal" /\ Goto(t, "graph")
  <2>1. turn[t].key # NoKey
    BY <1>1, <1>3 DEF IInv, TurnInv, RightKey, Chosen
  <2> QED
    BY <1>1, <1>3, <2>1, GotoKeeps
<1>4. CASE ~turn[t].title /\ Goto(t, "save")
  BY <1>1, <1>4, GotoKeeps
<1> QED
  BY <1>2, <1>3, <1>4 DEF Refuse, Reveal, EndTurn, SaveFails, Fail, Answers

LEMMA KeyRejectedKeeps ==
    ASSUME IInv, NEW t \in Turns, KeyRejected(t)
    PROVE  IInv'
<1> DEFINE act == active \ {turn[t].key}
           answer == IF turn[t].key \in there THEN "keyRejected" ELSE "failed"
           ended == {t}
<1>1. /\ active' = act /\ kept' = IF kept \in act THEN kept ELSE NoKey
      /\ turn' = [Watched(act, default) EXCEPT ![t] = Idle(answer)]
      /\ UNCHANGED <<drawn, there, default, session>>
  BY DEF KeyRejected
<1>2. /\ answer \in Answers /\ ended \in SUBSET Turns
      /\ act \cup default \subseteq there' /\ there' \subseteq drawn' /\ drawn' \subseteq Keys
  BY <1>1 DEF Answers, IInv, TypeOK
<1>3. Watched(act, default) = [u \in Turns |-> Watched(act, default)[u]]
  BY DEF Watched
<1> HIDE DEF act, answer
<1>4. /\ \A u \in ended : turn'[u] = Idle(answer)
      /\ \A u \in Turns \ ended : turn'[u] = Watched(act, default)[u]
      /\ turn' = [u \in Turns |-> turn'[u]]
  BY <1>1, <1>3
<1>5. OneDefault'
  BY <1>1 DEF IInv, OneDefault
<1>6. active' = act /\ default' = default /\ kept' = IF kept \in act THEN kept ELSE NoKey
  BY <1>1
<1>7. there' \cap drawn \subseteq there /\ drawn \subseteq drawn' /\ UNCHANGED session
  BY <1>1
<1> HIDE DEF ended
<1> QED
  BY <1>2, <1>4, <1>5, <1>6, <1>7, KeysChange

LEMMA BeginKeeps ==
    ASSUME IInv, NEW t \in Turns, Begin(t)
    PROVE  IInv'
<1>1. PICK title \in BOOLEAN, asked \in Models \cup {NoModel} :
        /\ title => session # NoSession /\ asked = NoModel
        /\ turn' = [u \in Turns |->
            IF u = t
            THEN LET loaded == IF title THEN NoSession ELSE session
                 IN  [Idle("none") EXCEPT
                        !.pc = "active", !.title = title, !.asked = asked,
                        !.loaded = loaded,
                        !.model = CASE asked # NoModel -> asked
                                    [] asked = NoModel /\ loaded # NoSession -> loaded.model
                                    [] OTHER -> ProjectModel,
                        !.alone = \A v \in Turns : ~Running(v),
                        !.steady = active, !.preferred = active \cap default]
            ELSE [turn[u] EXCEPT !.alone = @ /\ ~Running(u)]]
  BY DEF Begin
<1>2. ~Running(t) /\ UNCHANGED <<drawn, there, active, default, session, kept>>
  BY DEF Begin, keys
<1> DEFINE loaded == IF title THEN NoSession ELSE session
           model == CASE asked # NoModel -> asked
                      [] asked = NoModel /\ loaded # NoSession -> loaded.model
                      [] OTHER -> ProjectModel
           alone == \A v \in Turns : ~Running(v)
           new == [pc |-> "active", title |-> title, asked |-> asked, loaded |-> loaded,
                   model |-> model, key |-> NoKey, answer |-> "none", alone |-> alone,
                   steady |-> active, preferred |-> active \cap default]
<1>3. turn'[t] = new
  BY <1>1 DEF Idle
<1>4. loaded \in Sessions \cup {NoSession} /\ model \in Models /\ alone \in BOOLEAN
      /\ (asked # NoModel => model = asked)
  BY ModelsAssumption DEF IInv, TypeOK, Sessions
<1>5. new \in TurnStates /\ new.preferred \subseteq new.steady
  <2> HIDE DEF loaded, model, alone
  <2> QED
    BY <1>4 DEF IInv, TypeOK, TurnStates, Answers
<1>6. /\ turn'[t].pc = "active" /\ turn'[t].title = title /\ turn'[t].asked = asked
      /\ turn'[t].loaded = loaded /\ turn'[t].model = model /\ turn'[t].key = NoKey
      /\ turn'[t].alone = alone /\ turn'[t].steady = active
      /\ turn'[t].preferred = active \cap default
  <2> HIDE DEF loaded, model, alone
  <2> QED
    BY <1>3
<1>7. ASSUME NEW u \in Turns, u # t
      PROVE  /\ turn'[u] \in TurnStates /\ turn'[u].preferred \subseteq turn'[u].steady
             /\ Unmoved(u) /\ Running(u)' = Running(u)
             /\ Running(u) => ~turn'[u].alone
             /\ turn'[u].steady = turn[u].steady /\ turn'[u].preferred = turn[u].preferred
  <2>1. turn'[u] = [turn[u] EXCEPT !.alone = @ /\ ~Running(u)]
    BY <1>1, <1>7
  <2>2. turn[u] \in TurnStates /\ turn[u].preferred \subseteq turn[u].steady
    BY DEF IInv, TypeOK
  <2>3. turn'[u] \in TurnStates
    BY <2>1, <2>2 DEF TurnStates
  <2>4. /\ turn'[u].pc = turn[u].pc /\ turn'[u].title = turn[u].title
        /\ turn'[u].asked = turn[u].asked /\ turn'[u].loaded = turn[u].loaded
        /\ turn'[u].model = turn[u].model /\ turn'[u].key = turn[u].key
        /\ turn'[u].steady = turn[u].steady /\ turn'[u].preferred = turn[u].preferred
    BY <2>1, <2>2 DEF TurnStates
  <2>5. Running(u) => ~turn'[u].alone
    BY <2>1, <2>2 DEF TurnStates
  <2> QED
    BY <2>2, <2>3, <2>4, <2>5 DEF Unmoved, Running
<1>8. Wanted(t)' = model
  BY <1>2, <1>6 DEF Wanted
<1> HIDE DEF new, model, alone
<1>9. turn' = [u \in Turns |-> turn'[u]]
  BY <1>1
<1>10. TypeOK'
  BY <1>2, <1>3, <1>5, <1>7, <1>9 DEF IInv, TypeOK
<1>11. OneDefault'
  BY <1>2 DEF IInv, OneDefault
<1>12. AloneIsAlone'
  BY ZenonT(90), <1>2, <1>6, <1>7 DEF IInv, AloneIsAlone, Unmoved, alone
<1>13. SessionWaits'
  <2>1. turn'[t].loaded # NoSession => session.key = turn'[t].loaded.key
    BY <1>6
  <2> QED
    BY <1>2, <1>7, <2>1 DEF IInv, SessionWaits
<1>14. KeptIsPinned'
  BY <1>2, <1>6, <1>7 DEF IInv, KeptIsPinned, Unmoved
<1>15. TurnInv(t)'
  <2>1. WatchedIsSo(t)'
    BY <1>2, <1>6 DEF WatchedIsSo
  <2>2. SwitchesForWant(t)'
    BY <1>4, <1>6, <1>8 DEF SwitchesForWant
  <2>3. KeysAreDrawn(t)'
    BY <1>2, <1>6 DEF KeysAreDrawn, IInv, SessionWaits
  <2>4. RightKey(t)'
    BY <1>6 DEF RightKey, Chosen, OnProjectKey
  <2> QED
    BY <2>1, <2>2, <2>3, <2>4 DEF TurnInv
<1>16. ASSUME NEW u \in Turns, u # t PROVE TurnInv(u)'
  <2>1. Running(u) => WatchedIsSo(u)'
    BY <1>2, <1>7, <1>16 DEF IInv, TurnInv, WatchedIsSo
  <2> QED
    BY <1>2, <1>7, <1>16, <2>1, OthersGoOn DEF IInv
<1> QED
  BY <1>10, <1>11, <1>12, <1>13, <1>14, <1>15, <1>16 DEF IInv

\* The row of the session after a turn: what the turn changed, and the rest as it is.
LEMMA SavedSession ==
    ASSUME IInv, NEW t \in Turns, Save(t)
    PROVE  /\ session' \in Sessions
           /\ session'.key = IF turn[t].loaded = NoSession \/ turn[t].loaded.key # turn[t].key
                             THEN turn[t].key ELSE session.key
<1> DEFINE o == [model |-> turn[t].model, key |-> turn[t].key]
           written(f) == turn[t].loaded = NoSession \/ turn[t].loaded[f] # o[f]
<1>1. Outcome(t) = o /\ DOMAIN Outcome(t) = {"model", "key"}
  BY DEF Outcome
<1>2. \A f \in {"model", "key"} : f \in Written(t) <=> written(f)
  BY <1>1 DEF Written
<1>3. session' = [f \in {"model", "key"} |-> IF written(f) THEN o[f] ELSE session[f]]
  <2> HIDE DEF written
  <2> QED
    BY <1>1, <1>2 DEF Save
<1>4. /\ session'["model"] = IF written("model") THEN o.model ELSE session.model
      /\ session'["key"] = IF written("key") THEN o.key ELSE session.key
  <2> HIDE DEF written
  <2> QED
    BY <1>3
<1>5. turn[t].pc = "save" /\ Running(t) /\ turn[t] \in TurnStates
  BY DEF Save, Running, IInv, TypeOK
<1>6. turn[t].model \in Models /\ turn[t].key \in Keys \cup {NoKey}
  BY <1>5 DEF IInv, TurnInv, SwitchesForWant, TurnStates
<1>7. turn[t].loaded # NoSession => session \in Sessions
  BY <1>5 DEF IInv, TypeOK, TurnInv, KeysAreDrawn
<1>8. session'["model"] \in Models /\ session'["key"] \in Keys \cup {NoKey}
  BY <1>4, <1>6, <1>7 DEF Sessions
<1>9. session' = [model |-> session'["model"], key |-> session'["key"]]
  <2> HIDE DEF written, o
  <2> QED
    BY <1>3
<1> QED
  BY <1>4, <1>8, <1>9 DEF Sessions

LEMMA SaveKeeps ==
    ASSUME IInv, NEW t \in Turns, Save(t)
    PROVE  IInv'
<1>1. /\ turn[t].pc = "save" /\ Running(t) /\ turn[t] \in TurnStates
      /\ turn' = [turn EXCEPT ![t] = Idle("ok")]
      /\ kept' = IF turn[t].alone /\ turn[t].key \in active THEN turn[t].key ELSE NoKey
      /\ UNCHANGED <<drawn, there, active, default>>
  BY DEF Save, Ends, keys, Running, IInv, TypeOK
<1>2. /\ turn'[t] = Idle("ok") /\ Idle("ok") \in TurnStates
      /\ turn'[t].pc = "idle" /\ turn'[t].preferred = {} /\ ~Running(t)'
      /\ \A u \in Turns : u # t => turn'[u] = turn[u]
  BY <1>1, IdleIsTurn DEF IInv, TypeOK, Answers, Running
<1>3. /\ session' \in Sessions /\ session' # NoSession
      /\ session'.key = IF turn[t].loaded = NoSession \/ turn[t].loaded.key # turn[t].key
                        THEN turn[t].key ELSE session.key
  BY SavedSession, AbsentAssumption
<1>4. /\ turn[t].key \in drawn \cup {NoKey}
      /\ turn[t].loaded # NoSession => session # NoSession
  BY <1>1 DEF IInv, TurnInv, KeysAreDrawn
<1>5. session'.key \in drawn \cup {NoKey}
  BY <1>3, <1>4 DEF IInv, SessionWaits
<1>6. kept' # NoKey =>
        /\ \A u \in Turns : ~Running(u)'
        /\ kept' \in active' /\ kept' \in Keys /\ session'.key = kept'
  <2> SUFFICES ASSUME kept' # NoKey
               PROVE  /\ \A u \in Turns : ~Running(u)'
                      /\ kept' \in active' /\ kept' \in Keys /\ session'.key = kept'
    OBVIOUS
  <2>1. turn[t].alone /\ turn[t].key \in active /\ kept' = turn[t].key
    BY <1>1
  <2>2. \A u \in Turns : ~Running(u)'
    BY <1>1, <1>2, <2>1 DEF IInv, AloneIsAlone, Running
  <2>3. active \subseteq there /\ there \subseteq Keys
    BY DEF IInv, TypeOK
  <2>4. turn[t].loaded # NoSession /\ turn[t].loaded.key = turn[t].key
            => session.key = turn[t].key
    BY <1>1, <2>1, <2>3 DEF IInv, SessionWaits
  <2> QED
    BY <1>1, <1>3, <2>1, <2>2, <2>3, <2>4
<1>7. TypeOK'
  BY <1>1, <1>2, <1>3, <1>6 DEF IInv, TypeOK
<1>8. OneDefault' /\ AloneIsAlone'
  BY <1>1, <1>2 DEF IInv, OneDefault, AloneIsAlone, Running
<1>9. SessionWaits'
  <2>1. ASSUME NEW u \in Turns, Running(u)' PROVE ~turn'[u].alone
    BY <1>1, <1>2, <2>1 DEF IInv, AloneIsAlone, Running
  <2> QED
    BY <1>1, <1>5, <2>1 DEF SessionWaits
<1>10. KeptIsPinned'
  BY <1>3, <1>6 DEF KeptIsPinned
<1>11. ASSUME NEW u \in Turns PROVE TurnInv(u)'
  <2>1. CASE ~Running(u)'
    BY <2>1 DEF TurnInv
  <2>2. CASE Running(u)'
    <3>1. u # t /\ turn'[u] = turn[u] /\ kept' = NoKey
      BY <1>2, <1>6, <2>2
    <3>2. Unmoved(u) /\ (Running(u) => WatchedIsSo(u)')
      BY <1>1, <3>1 DEF Unmoved, IInv, TurnInv, WatchedIsSo
    <3> QED
      BY <1>1, <1>3, <3>1, <3>2, OthersGoOn DEF IInv
  <2> QED
    BY <2>1, <2>2
<1> QED
  BY <1>7, <1>8, <1>9, <1>10, <1>11 DEF IInv

-----------------------------------------------------------------------------

LEMMA StepKeeps == IInv /\ [Next]_vars => IInv'
<1> SUFFICES ASSUME IInv, [Next]_vars PROVE IInv'
  OBVIOUS
<1>1. CASE Vault
  BY <1>1, CreateKeyKeeps, PreferKeyKeeps, StatusKeeps, DeleteKeyKeeps DEF Vault
<1>2. ASSUME NEW t \in Turns, Resolve(t) PROVE IInv'
  BY <1>2, BeginKeeps, ReadActiveKeeps, ReadOtherKeeps, OtherStepsKeep DEF Resolve
<1>3. ASSUME NEW t \in Turns, Run(t) PROVE IInv'
  BY <1>3, KeyRejectedKeeps, SaveKeeps, OtherStepsKeep DEF Run
<1>4. CASE UNCHANGED vars
  <2>1. UNCHANGED <<drawn, there, active, default, session, turn, kept>>
    BY <1>4 DEF vars
  <2>2. TypeOK' /\ OneDefault' /\ AloneIsAlone' /\ SessionWaits' /\ KeptIsPinned'
    BY <2>1 DEF IInv, TypeOK, OneDefault, AloneIsAlone, SessionWaits, KeptIsPinned, Running
  <2>3. ASSUME NEW t \in Turns PROVE TurnInv(t)'
    BY <2>1, OthersGoOn DEF IInv, Unmoved, TurnInv, WatchedIsSo
  <2> QED
    BY <2>2, <2>3 DEF IInv
<1> QED
  BY <1>1, <1>2, <1>3, <1>4 DEF Next

LEMMA InvariantHolds == Spec => []IInv
<1>1. Init => IInv
  BY InitHolds
<1>2. IInv /\ [Next]_vars => IInv'
  BY StepKeeps
<1> QED
  BY <1>1, <1>2, PTL DEF Spec

\* Whatever keys and turns there are, and however the keys change between the reads of
\* resolve(), a turn runs the model it was asked for by name, on a key of that model's
\* provider, and the project's key runs the project's models only.
THEOREM KeyFitsModelHolds == Spec => []KeyFitsModel
<1>1. IInv => KeyFitsModel
  <2> SUFFICES ASSUME IInv, NEW t \in Turns
               PROVE  /\ Chosen(t) => Fits(turn[t].key, turn[t].model)
                      /\ OnProjectKey(t) => turn[t].model.provider = ProjectModel.provider
                      /\ Chosen(t) \/ OnProjectKey(t)
                            => turn[t].asked \in {NoModel, turn[t].model}
    BY DEF KeyFitsModel
  <2>1. Chosen(t) \/ OnProjectKey(t) => Running(t)
    BY DEF Chosen, OnProjectKey, Running
  <2> QED
    BY <2>1 DEF IInv, TurnInv, RightKey, SwitchesForWant
<1> QED
  BY <1>1, InvariantHolds, PTL

\* The order of the keys, likewise for any number of them and of turns: the key of the
\* turn before, then the default, then any other of the student's, then the project's.
THEOREM OrderOfKeysHolds == Spec => []OrderOfKeys
<1>1. IInv => OrderOfKeys
  <2> SUFFICES ASSUME IInv PROVE OrderOfKeys
    OBVIOUS
  <2>1. \A t \in Turns : Chosen(t) \/ OnProjectKey(t) \/ turn[t].pc = "refuse" => RightKey(t)
    BY DEF IInv, TurnInv, Running, Chosen, OnProjectKey
  <2>2. OneKeyThroughout
    BY <2>1 DEF OneKeyThroughout, RightKey
  <2>3. PreferredWins
    BY <2>1 DEF PreferredWins, RightKey
  <2>4. OwnKeyFirst
    BY <2>1 DEF OwnKeyFirst, RightKey, NoneSteady
  <2> QED
    BY <2>2, <2>3, <2>4 DEF OrderOfKeys
<1> QED
  BY <1>1, InvariantHolds, PTL

\* The types, and that the keys preferred, active and stored are each among the next.
THEOREM TypesHold == Spec => []TypeOK
<1>1. IInv => TypeOK
  BY DEF IInv
<1> QED
  BY <1>1, InvariantHolds, PTL
=============================================================================
