----------------------------- MODULE SignupProofs -----------------------------
(***************************************************************************)
(* Proofs about signing up, restoring and adding a relay, for every number *)
(* of attempts, every set of accounts and every deadline.                  *)
(***************************************************************************)
EXTENDS Signup, TLAPS

\* Phases that have an account.
Holding == {"starting", "added", "naming", "checking", "calling", "comparing", "stopping",
            "undoing"}

\* An attempt that works on an account, or made a profile on it, has one.
AccountKnown ==
    \A i \in Attempts :
        attempt[i].phase \in Holding \/ attempt[i].outcome = "created"
            => attempt[i].account \in Accounts

TypeInv == TypeOK /\ AccountKnown

Outcomes == {"none", "created", "failed", "timedOut", "refused"}

\* An attempt of which one field is set.
LEMMA SetField ==
    ASSUME NEW x \in Attempt
    PROVE  /\ \A phase \in Phases : [x EXCEPT !.phase = phase] \in Attempt
           /\ \A child \in ChildPhases : [x EXCEPT !.child = child] \in Attempt
           /\ \A account \in Accounts \cup {NoAccount} : [x EXCEPT !.account = account] \in Attempt
           /\ \A outcome \in Outcomes : [x EXCEPT !.outcome = outcome] \in Attempt
           /\ \A flag \in BOOLEAN : /\ [x EXCEPT !.wanted = flag] \in Attempt
                                    /\ [x EXCEPT !.ok = flag] \in Attempt
                                    /\ [x EXCEPT !.shared = flag] \in Attempt
           /\ [x EXCEPT !.free = {}] \in Attempt
  BY DEF Attempt, Outcomes

\* Calls that are cut short change of an attempt only its child.
LEMMA CutShortType ==
    ASSUME NEW a, attempt \in [Attempts -> Attempt]
    PROVE  /\ CutShort(a) \in [Attempts -> Attempt]
           /\ \A j \in Attempts :
                 /\ CutShort(a)[j].phase = attempt[j].phase
                 /\ CutShort(a)[j].kind = attempt[j].kind
                 /\ CutShort(a)[j].account = attempt[j].account
                 /\ CutShort(a)[j].free = attempt[j].free
                 /\ CutShort(a)[j].outcome = attempt[j].outcome
                 /\ CutShort(a)[j].shared = attempt[j].shared
                 /\ \/ CutShort(a)[j].child = attempt[j].child
                    \/ attempt[j].child = "running" /\ CutShort(a)[j].child = "err"
  BY DEF CutShort, Attempt, ChildPhases

\* No attempt has begun, and nothing is held.
LEMMA TypeInit == Init => TypeInv
  BY SignupAssumption DEF Init, TypeInv, TypeOK, AccountKnown, Holding, Attempt, Attempts, Accounts,
                          Kinds, Phases, ChildPhases

\* What the app does.
LEMMA TypeApp ==
    ASSUME TypeInv, NEW k \in Kinds, NEW a \in Accounts \cup {NoAccount}, Begin(k, a) \/ Cancel
    PROVE  TypeInv'
  <1> USE DEF TypeInv, TypeOK, AccountKnown, Holding, Attempts
  <1>1. CASE Begin(k, a)
    <2>1. begun + 1 \in Attempts
      BY <1>1, SignupAssumption DEF Begin
    <2>2. begun' \in 0 .. MaxAttempts /\ current' \in 0 .. begun'
      BY <1>1, SignupAssumption DEF Begin
    <2>3. attempt' \in [Attempts -> Attempt]
      BY <1>1, <2>1 DEF Begin, Attempt, Kinds, Phases, Accounts
    <2>4. AccountKnown'
      <3>1. CASE k # "relay"
        <4>1. attempt' = [attempt EXCEPT ![begun + 1].kind = k, ![begun + 1].phase = "listing"]
          BY <1>1, <3>1 DEF Begin
        <4>q. QED BY <2>1, <4>1 DEF Attempt
      <3>2. CASE k = "relay"
        <4>1. /\ attempt' = [attempt EXCEPT ![begun + 1].kind = k, ![begun + 1].phase = "starting",
                                            ![begun + 1].account = a]
              /\ a \in Accounts
          BY <1>1, <3>2 DEF Begin, Accounts
        <4>q. QED BY <2>1, <4>1 DEF Attempt
      <3>q. QED BY <3>1, <3>2
    <2>5. busy' \subseteq Accounts
      BY <1>1 DEF Begin, Hold, Accounts
    <2>q. QED BY <1>1, <2>2, <2>3, <2>4, <2>5 DEF Begin, coreVars
  <1>2. CASE Cancel
    <2>1. current \in Attempts
      BY <1>2, SignupAssumption DEF Cancel, Awaited
    <2>q. QED BY <1>2, <2>1, SignupAssumption DEF Cancel, coreVars
  <1>q. QED BY <1>1, <1>2

\* pick_account and the steps of an attempt up to its call.
LEMMA TypePick ==
    ASSUME TypeInv, NEW i \in Attempts,
           \/ ListAccounts(i) \/ Pick(i) \/ AddAccount(i) \/ Added(i)
           \/ SetName(i) \/ CheckCode(i) \/ AddTransport(i)
    PROVE  TypeInv'
  <1> USE DEF TypeInv, TypeOK, AccountKnown, Holding, coreVars, shimVars
  <1>1. CASE ListAccounts(i)
    BY <1>1 DEF ListAccounts, Post, Attempt, Phases
  <1>2. ASSUME NEW a \in Accounts, Take(i, a)
        PROVE  /\ attempt' \in [Attempts -> Attempt]
               /\ AccountKnown'
               /\ busy' \subseteq Accounts
    <2>1. AfterPick(i) \in Phases
      BY DEF AfterPick, Phases
    <2>2. attempt' \in [Attempts -> Attempt]
      <3> DEFINE shared == InUse(i, a)
      <3>1. shared \in BOOLEAN
        BY DEF InUse
      <3>2. attempt' = [attempt EXCEPT ![i].account = a, ![i].phase = AfterPick(i), ![i].free = {},
                                       ![i].child = IF attempt[i].kind = "file" THEN "sent" ELSE "none",
                                       ![i].shared = shared]
        BY <1>2 DEF Take
      <3> HIDE DEF shared
      <3>q. QED BY <3>1, <3>2, <2>1, SetField DEF ChildPhases
    <2>3. /\ \A j \in Attempts \ {i} : attempt'[j] = attempt[j]
          /\ attempt'[i].account = a
      BY <1>2 DEF Take, Attempt
    <2>q. QED BY <1>2, <2>2, <2>3 DEF Take, Hold
  <1>3. CASE Pick(i)
    <2>1. CASE \E a \in attempt[i].free \ busy : Take(i, a)
      <3>1. PICK a \in attempt[i].free : Take(i, a)
        BY <2>1
      <3>2. a \in Accounts
        BY DEF Attempt
      <3>q. QED BY <1>2, <1>3, <3>1, <3>2 DEF Pick
    <2>2. CASE ~\E a \in attempt[i].free \ busy : Take(i, a)
      BY <1>3, <2>2 DEF Pick, Attempt, Phases
    <2>q. QED BY <2>1, <2>2
  <1>4. CASE AddAccount(i)
    <2>1. CASE Post(i, "failed") /\ UNCHANGED coreVars
      <3>1. attempt' = [attempt EXCEPT ![i].phase = "posted", ![i].outcome = "failed"]
        BY <2>1 DEF Post
      <3>2. attempt' \in [Attempts -> Attempt]
        <4>1. "posted" \in Phases /\ "failed" \in Outcomes
          BY DEF Phases, Outcomes
        <4>q. QED BY <4>1, <3>1, SetField
      <3>3. AccountKnown'
        BY <3>1 DEF Attempt
      <3>q. QED BY <1>4, <2>1, <3>2, <3>3 DEF AddAccount
    <2>2. CASE ~(Post(i, "failed") /\ UNCHANGED coreVars)
      <3>1. PICK a \in New \ used :
               /\ used' = used \cup {a}
               /\ kind' = [kind EXCEPT ![a] = "Unconfigured"]
               /\ attempt' = [attempt EXCEPT ![i].phase = "added", ![i].account = a]
               /\ UNCHANGED process
        BY <1>4, <2>2 DEF AddAccount
      <3>2. a \in Accounts
        BY DEF Accounts
      <3>3. attempt' \in [Attempts -> Attempt]
        <4>1. "added" \in Phases
          BY DEF Phases
        <4>q. QED BY <4>1, <3>1, <3>2, SetField
      <3>4. AccountKnown'
        BY <3>1, <3>2 DEF Attempt
      <3>q. QED BY <1>4, <3>1, <3>2, <3>3, <3>4 DEF AddAccount
    <2>q. QED BY <2>1, <2>2
  <1>5. CASE Added(i)
    <2>1. attempt[i].account \in Accounts
      BY <1>5 DEF Added
    <2>q. QED BY <1>2, <1>5, <2>1 DEF Added
  <1>6. CASE SetName(i)
    <2>1. /\ \/ attempt' = [attempt EXCEPT ![i].phase = "calling", ![i].child = "sent"]
             \/ attempt' = [attempt EXCEPT ![i].phase = "posted", ![i].outcome = "failed"]
          /\ busy' \subseteq busy /\ attempt[i].account \in Accounts
          /\ UNCHANGED <<current, begun, stops, removals, announced, coreVars>>
      BY <1>6 DEF SetName, Post, Release
    <2>2. attempt' \in [Attempts -> Attempt]
      <3>1. {"calling", "posted"} \subseteq Phases /\ "sent" \in ChildPhases /\ "failed" \in Outcomes
        BY DEF Phases, ChildPhases, Outcomes
      <3>2. CASE attempt' = [attempt EXCEPT ![i].phase = "calling", ![i].child = "sent"]
        BY <3>1, <3>2, SetField
      <3>3. CASE attempt' = [attempt EXCEPT ![i].phase = "posted", ![i].outcome = "failed"]
        BY <3>1, <3>3, SetField
      <3>q. QED BY <2>1, <3>2, <3>3
    <2>3. AccountKnown'
      BY <2>1 DEF Attempt
    <2>q. QED BY <2>1, <2>2, <2>3
  <1>7. CASE CheckCode(i)
    BY <1>7 DEF CheckCode, Post, Release, Attempt, Phases, ChildPhases
  <1>8. CASE AddTransport(i)
    <2>1. /\ attempt' = [attempt EXCEPT ![i].phase = "calling", ![i].child = "sent"]
          /\ attempt[i].account \in Accounts
      BY <1>8 DEF AddTransport
    <2>2. attempt' \in [Attempts -> Attempt]
      <3>1. "calling" \in Phases /\ "sent" \in ChildPhases
        BY DEF Phases, ChildPhases
      <3>q. QED BY <3>1, <2>1, SetField
    <2>3. AccountKnown'
      BY <2>1 DEF Attempt
    <2>q. QED BY <1>8, <2>1, <2>2, <2>3 DEF AddTransport, Hold
  <1>q. QED BY <1>1, <1>3, <1>4, <1>5, <1>6, <1>7, <1>8

\* The end of an attempt, its callback, its deadline and its child.
LEMMA TypeEnd ==
    ASSUME TypeInv, NEW i \in Attempts,
           \/ Joined(i) \/ Compare(i) \/ Undo(i) \/ StopOwn(i) \/ Callback(i) \/ TimesOut(i)
           \/ CallTimesOut(i) \/ Child(i)
    PROVE  TypeInv'
  <1> USE DEF TypeInv, TypeOK, AccountKnown, Holding, coreVars, shimVars
  <1>1. CASE Joined(i)
    <2>1. attempt[i].account \in Accounts
      BY <1>1 DEF Joined
    <2>2. attempt' \in [Attempts -> Attempt]
      BY <1>1 DEF Joined, Post, Move, Attempt, Phases
    <2>3. /\ \A j \in Attempts \ {i} : attempt'[j] = attempt[j]
          /\ attempt'[i].account = attempt[i].account
      BY <1>1 DEF Joined, Post, Move, Attempt
    <2>q. QED BY <1>1, <2>1, <2>2, <2>3 DEF Joined
  <1>2. CASE Compare(i)
    BY <1>2 DEF Compare, Post, Attempt, Phases
  <1>3. CASE Undo(i)
    <2>1. attempt' = [CutShort(attempt[i].account) EXCEPT ![i].phase = "posted"]
      BY <1>3 DEF Undo
    <2>2. attempt' \in [Attempts -> Attempt] /\ AccountKnown'
      BY <2>1, CutShortType DEF Attempt, Phases
    <2>q. QED BY <1>3, <2>2 DEF Undo, Removed
  <1>4. CASE StopOwn(i)
    <2>1. attempt' = [CutShort(attempt[i].account) EXCEPT
                          ![i].phase = "posted",
                          ![i].outcome = IF Restores(i) THEN "refused" ELSE "timedOut"]
      BY <1>4 DEF StopOwn
    <2>2. CutShort(attempt[i].account) \in [Attempts -> Attempt]
      BY CutShortType
    <2>3. attempt' \in [Attempts -> Attempt]
      <3> DEFINE end == IF Restores(i) THEN "refused" ELSE "timedOut"
      <3>1. "posted" \in Phases /\ end \in Outcomes
        BY DEF Phases, Outcomes
      <3> HIDE DEF end
      <3>2. attempt' = [CutShort(attempt[i].account) EXCEPT ![i].phase = "posted", ![i].outcome = end]
        BY <2>1 DEF end
      <3>q. QED BY <3>1, <3>2, <2>2, SetField
    <2>4. /\ \A j \in Attempts \ {i} : attempt'[j] = CutShort(attempt[i].account)[j]
          /\ attempt'[i].account = CutShort(attempt[i].account)[i].account
      BY <2>1, <2>2 DEF Attempt
    <2>5. attempt[i].account \in Accounts
      BY <1>4 DEF StopOwn
    <2>6. AccountKnown'
      BY <2>4, <2>5, CutShortType
    <2>q. QED BY <1>4, <2>3, <2>6 DEF StopOwn
  <1>5. CASE Callback(i)
    BY <1>5 DEF Callback, Move, Attempt, Phases
  <1>6. CASE TimesOut(i)
    <2>1. /\ attempt' = [attempt EXCEPT ![i].phase = "stopping", ![i].wanted = FALSE]
          /\ attempt[i].account \in Accounts
      BY <1>6 DEF TimesOut
    <2>2. attempt' \in [Attempts -> Attempt]
      <3>1. "stopping" \in Phases
        BY DEF Phases
      <3>q. QED BY <3>1, <2>1, SetField
    <2>3. AccountKnown'
      BY <2>1 DEF Attempt
    <2>q. QED BY <1>6, <2>2, <2>3 DEF TimesOut
  <1>7. CASE CallTimesOut(i)
    BY <1>7 DEF CallTimesOut, Attempt, ChildPhases
  <1>8. CASE LetGo(i)
    BY <1>8 DEF LetGo, Release, Attempt, ChildPhases
  <1>9. CASE ChildUndoes(i)
    <2>1. attempt' = [CutShort(attempt[i].account) EXCEPT ![i].child = "returned"]
      BY <1>9 DEF ChildUndoes
    <2>2. attempt' \in [Attempts -> Attempt] /\ AccountKnown'
      <3>1. CutShort(attempt[i].account) \in [Attempts -> Attempt] /\ "returned" \in ChildPhases
        BY CutShortType DEF ChildPhases
      <3>2. attempt' \in [Attempts -> Attempt]
        BY <2>1, <3>1, SetField
      <3>3. AccountKnown'
        BY <2>1, <3>1, CutShortType DEF Attempt
      <3>q. QED BY <3>2, <3>3
    <2>q. QED BY <1>9, <2>2 DEF ChildUndoes, Removed
  <1>10. CASE ChildReturns(i)
    <2> DEFINE ok == attempt[i].child = "kept"
    <2>1. attempt' = [attempt EXCEPT ![i].child = "returned", ![i].ok = ok]
      BY <1>10 DEF ChildReturns
    <2>2. ok \in BOOLEAN
      OBVIOUS
    <2> HIDE DEF ok
    <2>3. attempt' \in [Attempts -> Attempt]
      <3>1. "returned" \in ChildPhases
        BY DEF ChildPhases
      <3>q. QED BY <3>1, <2>1, <2>2, SetField
    <2>4. AccountKnown'
      BY <2>1 DEF Attempt
    <2>q. QED BY <1>10, <2>3, <2>4 DEF ChildReturns
  <1>q. QED BY <1>1, <1>2, <1>3, <1>4, <1>5, <1>6, <1>7, <1>8, <1>9, <1>10 DEF Child

\* What the core does, and what reaches it late.
LEMMA TypeCore ==
    ASSUME TypeInv,
           \/ \E i \in Attempts : CoreTakesUp(i)
           \/ \E a \in Accounts, ok \in BOOLEAN : CoreEnds(a, ok)
           \/ \E s \in stops : StopLands(s)
           \/ \E r \in removals : RemovalLands(r)
    PROVE  TypeInv'
  <1> USE DEF TypeInv, TypeOK, AccountKnown, Holding, coreVars, shimVars
  <1>1. ASSUME NEW i \in Attempts, CoreTakesUp(i) PROVE TypeInv'
    BY <1>1 DEF CoreTakesUp, Attempt, ChildPhases
  <1>2. ASSUME NEW a \in Accounts, NEW ok \in BOOLEAN, CoreEnds(a, ok) PROVE TypeInv'
    BY <1>2 DEF CoreEnds, Attempt, ChildPhases
  <1>3. ASSUME NEW s \in stops, StopLands(s) PROVE TypeInv'
    <2>1. attempt' \in [Attempts -> Attempt] /\ AccountKnown'
      BY <1>3, CutShortType DEF StopLands
    <2>q. QED BY <1>3, <2>1 DEF StopLands
  <1>4. ASSUME NEW r \in removals, RemovalLands(r) PROVE TypeInv'
    <2>1. attempt' \in [Attempts -> Attempt] /\ AccountKnown'
      BY <1>4, CutShortType DEF RemovalLands
    <2>q. QED BY <1>4, <2>1 DEF RemovalLands, Removed
  <1>q. QED BY <1>1, <1>2, <1>3, <1>4

\* The steps, as the lemmas take them.
LEMMA TypeStep == TypeInv /\ [Next]_vars => TypeInv'
  <1> SUFFICES ASSUME TypeInv, [Next]_vars PROVE TypeInv'
    OBVIOUS
  <1>1. CASE UNCHANGED vars
    BY <1>1 DEF TypeInv, TypeOK, AccountKnown, vars, shimVars, coreVars
  <1>2. CASE Next
    <2>1. ASSUME NEW i \in Attempts, Task(i) \/ Child(i) \/ TimesOut(i) \/ CallTimesOut(i) PROVE TypeInv'
      BY <2>1, TypePick, TypeEnd DEF Task
    <2>2. CASE Runtime
      BY <2>1, <2>2, TypeCore DEF Runtime
    <2>3. CASE \E k \in Kinds, a \in Accounts \cup {NoAccount} : Begin(k, a)
      BY <2>3, TypeApp
    <2>4. CASE Cancel
      <3>1. "profile" \in Kinds /\ NoAccount \in Accounts \cup {NoAccount}
        BY DEF Kinds
      <3>q. QED BY <2>4, <3>1, TypeApp
    <2>5. CASE \E a \in Accounts, ok \in BOOLEAN : CoreEnds(a, ok)
      BY <2>5, TypeCore
    <2>q. QED BY <1>2, <2>2, <2>3, <2>4, <2>5 DEF Next
  <1>q. QED BY <1>1, <1>2

\* Every reachable state of the attempts, the accounts they hold and the core's processes
\* is of its type; an attempt past pick_account has an account (signup.rs, Attempt).
THEOREM TypeCorrect == Spec => []TypeOK
  <1>1. TypeInv => TypeOK
    BY DEF TypeInv
  <1>q. QED BY <1>1, TypeInit, TypeStep, PTL DEF Spec

-----------------------------------------------------------------------------
(* Every hold ends *)

\* Phases before the account is picked: a relay picks none.
Picking == {"listing", "listed", "adding", "added"}
Early == {"idle", "listing", "listed", "adding", "added"}

\* An attempt that has not been begun is idle, and only one that has picked its account
\* has made its call.
ChildComes ==
    \A i \in Attempts :
        /\ i > begun => attempt[i].phase = "idle"
        /\ attempt[i].phase \in Early => attempt[i].child = "none"
        /\ attempt[i].phase \in Picking => attempt[i].kind # "relay"

\* Attempt i goes on working on the accounts it works on, but for those let go now.
KeepsWorking(i) == \A a \in Accounts : Working(i, a) => Working(i, a)' \/ a \notin busy'

HoldInv == TypeInv /\ HoldsEnd /\ ChildComes

\* What is held stays held, or is held by an attempt that has taken it up.
LEMMA HoldsKept ==
    ASSUME HoldInv, TypeInv', \A i \in Attempts : KeepsWorking(i),
           \A a \in busy' \ busy : \E i \in Attempts : Working(i, a)'
    PROVE  HoldsEnd'
  BY DEF HoldInv, TypeInv, TypeOK, HoldsEnd, KeepsWorking

\* An attempt whose record stays works on.
LEMMA SameWork ==
    ASSUME NEW i \in Attempts, attempt'[i] = attempt[i]
    PROVE  KeepsWorking(i)
  BY DEF KeepsWorking, Working

\* So does one whose call is cut short.
LEMMA CutWork ==
    ASSUME NEW a, NEW i \in Attempts, attempt \in [Attempts -> Attempt],
           attempt'[i] = CutShort(a)[i]
    PROVE  KeepsWorking(i)
  BY CutShortType DEF KeepsWorking, Working

LEMMA HoldInit == Init => HoldInv
  BY TypeInit, SignupAssumption DEF Init, HoldInv, HoldsEnd, ChildComes, Early, Picking, Attempts

\* The steps that change one attempt i keep HoldInv if i keeps working, or is where what is
\* newly held went.
LEMMA OneChanges ==
    ASSUME HoldInv, TypeInv', NEW i \in Attempts,
           \A j \in Attempts \ {i} : attempt'[j] = attempt[j],
           KeepsWorking(i),
           \A a \in busy' \ busy : Working(i, a)',
           i > begun' => attempt'[i].phase = "idle",
           attempt'[i].phase \in Early => attempt'[i].child = "none",
           attempt'[i].phase \in Picking => attempt'[i].kind # "relay",
           begun' \in Nat, begun' >= begun
    PROVE  HoldInv'
  <1>1. \A j \in Attempts : KeepsWorking(j)
    BY SameWork
  <1>2. HoldsEnd'
    BY <1>1, HoldsKept
  <1>3. ChildComes'
    BY SignupAssumption DEF ChildComes, HoldInv, TypeInv, TypeOK, Attempts
  <1>q. QED BY <1>2, <1>3 DEF HoldInv

\* So do the steps that cut short, or end, the core's process for an account, if the one
\* attempt i that may change otherwise is past its call.
LEMMA CallsChange ==
    ASSUME HoldInv, TypeInv', UNCHANGED <<busy, begun>>, NEW I \in SUBSET Attempts,
           \A j \in Attempts \ I :
              /\ attempt'[j].phase = attempt[j].phase /\ attempt'[j].kind = attempt[j].kind
              /\ attempt'[j].account = attempt[j].account
              /\ \/ attempt'[j].child = attempt[j].child
                 \/ attempt[j].child = "running" /\ attempt'[j].child \in {"ok", "err"},
           \A i \in I : /\ KeepsWorking(i) /\ attempt[i].phase # "idle"
                        /\ attempt'[i].phase \notin Early
    PROVE  HoldInv'
  <1>1. ASSUME NEW j \in Attempts \ I PROVE KeepsWorking(j)
    BY <1>1 DEF KeepsWorking, Working
  <1>2. HoldsEnd'
    BY <1>1, HoldsKept
  <1>3. ChildComes'
    BY DEF ChildComes, HoldInv, Early, Picking
  <1>q. QED BY <1>2, <1>3 DEF HoldInv

LEMMA CallEnds ==
    ASSUME HoldInv, TypeInv', UNCHANGED <<busy, begun>>, NEW i \in Attempts,
           \A j \in Attempts \ {i} :
              /\ attempt'[j].phase = attempt[j].phase /\ attempt'[j].kind = attempt[j].kind
              /\ attempt'[j].account = attempt[j].account
              /\ \/ attempt'[j].child = attempt[j].child
                 \/ attempt[j].child = "running" /\ attempt'[j].child \in {"ok", "err"},
           KeepsWorking(i), attempt[i].phase # "idle", attempt'[i].phase \notin Early
    PROVE  HoldInv'
  <1>1. {i} \in SUBSET Attempts
    OBVIOUS
  <1>2. \A k \in {i} : /\ KeepsWorking(k) /\ attempt[k].phase # "idle"
                       /\ attempt'[k].phase \notin Early
    OBVIOUS
  <1>q. QED BY <1>1, <1>2, CallsChange

\* What the app does.
LEMMA HoldApp ==
    ASSUME HoldInv, TypeInv', NEW k \in Kinds, NEW a \in Accounts \cup {NoAccount},
           Begin(k, a) \/ Cancel
    PROVE  HoldInv'
  <1>1. CASE Begin(k, a)
    <2>1. PICK i \in Attempts : /\ i = begun + 1 /\ begun \in Nat
                               /\ begun' = i /\ begun' \in Nat /\ begun' >= begun /\ ~(i > begun')
      BY <1>1, SignupAssumption DEF Begin, HoldInv, TypeInv, TypeOK, Attempts
    <2>2. attempt \in [Attempts -> Attempt]
      BY DEF HoldInv, TypeInv, TypeOK
    <2>3. \A j \in Attempts \ {i} : attempt'[j] = attempt[j]
      BY <1>1, <2>1, <2>2 DEF Begin
    <2>4. attempt[i].phase = "idle" /\ attempt[i].child = "none"
      BY <2>1 DEF HoldInv, ChildComes, Early
    <2>5. KeepsWorking(i)
      BY <2>4 DEF KeepsWorking, Working
    <2>6. CASE k # "relay"
      <3>1. /\ attempt' = [attempt EXCEPT ![i].kind = k, ![i].phase = "listing"]
            /\ UNCHANGED busy
        BY <1>1, <2>1, <2>6 DEF Begin
      <3>2. attempt'[i].phase = "listing" /\ attempt'[i].child = "none" /\ attempt'[i].kind = k
        BY <2>1, <2>2, <2>4, <3>1 DEF Attempt
      <3>q. QED BY <2>1, <2>3, <2>5, <2>6, <3>1, <3>2, OneChanges DEF Early, Picking
    <2>7. CASE k = "relay"
      <3>1. /\ attempt' = [attempt EXCEPT ![i].kind = k, ![i].phase = "starting", ![i].account = a]
            /\ busy' = busy \cup {a}
        BY <1>1, <2>1, <2>7 DEF Begin, Hold
      <3>2. attempt'[i].phase = "starting" /\ attempt'[i].account = a
        BY <2>1, <2>2, <3>1 DEF Attempt
      <3>3. \A b \in busy' \ busy : Working(i, b)'
        BY <3>1, <3>2 DEF Working
      <3>q. QED BY <2>1, <2>3, <2>5, <3>2, <3>3, OneChanges DEF Early, Picking
    <2>q. QED BY <2>6, <2>7
  <1>2. CASE Cancel
    <2>1. UNCHANGED <<busy, attempt, begun>>
      BY <1>2 DEF Cancel
    <2>q. QED BY <2>1 DEF HoldInv, HoldsEnd, ChildComes, Working
  <1>q. QED BY <1>1, <1>2

\* Phases, children and holds of the attempt that takes a step of its own.
LEMMA HoldTask ==
    ASSUME HoldInv, TypeInv', NEW i \in Attempts,
           Task(i) \/ Child(i) \/ TimesOut(i) \/ CallTimesOut(i)
    PROVE  HoldInv'
  <1>0. /\ attempt \in [Attempts -> Attempt] /\ begun \in Nat
        /\ i > begun => attempt[i].phase = "idle"
        /\ attempt[i].phase \in Early => attempt[i].child = "none"
        /\ attempt[i].phase \in Picking => attempt[i].kind # "relay"
    BY DEF HoldInv, TypeInv, TypeOK, ChildComes
  <1> USE <1>0 DEF Early, Picking
  <1>1. CASE ListAccounts(i)
    <2>1. /\ \A j \in Attempts \ {i} : attempt'[j] = attempt[j]
          /\ attempt'[i].child = "none" /\ attempt[i].phase = "listing"
          /\ attempt'[i].kind = attempt[i].kind
          /\ UNCHANGED <<busy, begun>>
      BY <1>1 DEF ListAccounts, Post, shimVars, Attempt
    <2>2. KeepsWorking(i)
      BY <2>1 DEF KeepsWorking, Working
    <2>q. QED BY <2>1, <2>2, OneChanges
  <1>2. ASSUME NEW a, Take(i, a), attempt[i].phase \in {"listed", "added"}, UNCHANGED begun
        PROVE  HoldInv'
    <2>1. /\ \A j \in Attempts \ {i} : attempt'[j] = attempt[j]
          /\ attempt'[i].phase = AfterPick(i) /\ attempt'[i].account = a
          /\ attempt'[i].child = IF attempt[i].kind = "file" THEN "sent" ELSE "none"
          /\ busy' = busy \cup {a}
      BY <1>2 DEF Take, Hold, Attempt
    <2>2. KeepsWorking(i)
      BY <1>2 DEF KeepsWorking, Working
    <2>3. attempt[i].kind \in Kinds \ {"relay"}
      BY <1>2 DEF Attempt
    <2>4. /\ AfterPick(i) \in {"naming", "checking", "calling"}
          /\ AfterPick(i) \in {"naming", "checking"} \/ attempt[i].kind = "file"
      BY <2>3 DEF AfterPick, Kinds
    <2>5. Working(i, a)'
      BY <2>1, <2>4 DEF Working
    <2>q. QED BY <1>2, <2>1, <2>2, <2>4, <2>5, OneChanges
  <1>3. CASE Pick(i)
    <2>1. CASE \E a \in attempt[i].free \ busy : Take(i, a)
      BY <1>2, <1>3, <2>1 DEF Pick
    <2>2. CASE ~\E a \in attempt[i].free \ busy : Take(i, a)
      <3>1. /\ attempt' = [attempt EXCEPT ![i].phase = "adding", ![i].free = {}]
            /\ attempt[i].phase = "listed"
            /\ UNCHANGED <<busy, begun>>
        BY <1>3, <2>2 DEF Pick
      <3>2. /\ \A j \in Attempts \ {i} : attempt'[j] = attempt[j]
            /\ attempt'[i].child = "none" /\ attempt'[i].kind = attempt[i].kind
        BY <3>1 DEF Attempt
      <3>3. KeepsWorking(i)
        BY <3>1 DEF KeepsWorking, Working
      <3>4. begun' >= begun /\ ~(i > begun)
        BY <3>1
      <3>q. QED BY <3>1, <3>2, <3>3, <3>4, OneChanges
    <2>q. QED BY <2>1, <2>2
  <1>4. CASE AddAccount(i)
    <2>1. /\ \A j \in Attempts \ {i} : attempt'[j] = attempt[j]
          /\ attempt'[i].child = "none" /\ attempt[i].phase = "adding"
          /\ attempt'[i].kind = attempt[i].kind
          /\ UNCHANGED <<busy, begun>>
      BY <1>4 DEF AddAccount, Post, shimVars, Attempt
    <2>2. KeepsWorking(i)
      BY <2>1 DEF KeepsWorking, Working
    <2>q. QED BY <2>1, <2>2, OneChanges
  <1>5. CASE Added(i)
    BY <1>2, <1>5 DEF Added
  <1>6. CASE SetName(i)
    <2>1. /\ \A j \in Attempts \ {i} : attempt'[j] = attempt[j]
          /\ attempt'[i].account = attempt[i].account /\ attempt[i].phase = "naming"
          /\ attempt'[i].phase \in {"calling", "posted"}
          /\ UNCHANGED begun /\ busy' \subseteq busy
          /\ attempt'[i].child = "sent" \/ attempt[i].account \notin busy'
      BY <1>6 DEF SetName, Post, Release, Attempt
    <2>2. KeepsWorking(i)
      BY <2>1 DEF KeepsWorking, Working
    <2>q. QED BY <2>1, <2>2, OneChanges
  <1>7. CASE CheckCode(i)
    <2>1. /\ \A j \in Attempts \ {i} : attempt'[j] = attempt[j]
          /\ attempt'[i].account = attempt[i].account /\ attempt[i].phase = "checking"
          /\ attempt'[i].phase \in {"calling", "posted"}
          /\ UNCHANGED begun /\ busy' \subseteq busy
          /\ attempt'[i].child = "sent" \/ attempt[i].account \notin busy'
      BY <1>7 DEF CheckCode, Post, Release, Attempt
    <2>2. KeepsWorking(i)
      BY <2>1 DEF KeepsWorking, Working
    <2>q. QED BY <2>1, <2>2, OneChanges
  <1>8. CASE AddTransport(i)
    <2>1. /\ \A j \in Attempts \ {i} : attempt'[j] = attempt[j]
          /\ attempt'[i].account = attempt[i].account /\ attempt[i].phase = "starting"
          /\ attempt'[i].phase = "calling" /\ attempt'[i].child = "sent"
          /\ UNCHANGED begun /\ busy' = busy \cup {attempt[i].account}
      BY <1>8 DEF AddTransport, Hold, Attempt
    <2>2. KeepsWorking(i)
      BY <2>1 DEF KeepsWorking, Working
    <2>3. \A a \in busy' \ busy : Working(i, a)'
      BY <2>1 DEF Working
    <2>q. QED BY <2>1, <2>2, <2>3, OneChanges
  <1>9. ASSUME attempt[i].phase \in {"calling", "comparing", "posted"},
               attempt'[i].phase \in {"posted", "comparing", "undoing", "stopping", "over"},
               attempt'[i].child = attempt[i].child, attempt'[i].account = attempt[i].account,
               \A j \in Attempts \ {i} : attempt'[j] = attempt[j],
               UNCHANGED <<busy, begun>>
        PROVE  HoldInv'
    <2>1. KeepsWorking(i)
      BY <1>9 DEF KeepsWorking, Working
    <2>2. ~(i > begun)
      BY <1>9
    <2>q. QED BY <1>9, <2>1, <2>2, OneChanges
  <1>10. CASE Joined(i)
    <2>1. /\ attempt[i].phase = "calling"
          /\ attempt'[i].phase \in {"posted", "comparing", "undoing"}
          /\ attempt'[i].child = attempt[i].child /\ attempt'[i].account = attempt[i].account
          /\ \A j \in Attempts \ {i} : attempt'[j] = attempt[j]
          /\ UNCHANGED <<busy, begun>>
      BY <1>10 DEF Joined, Post, Move, shimVars, Attempt
    <2>q. QED BY <1>9, <2>1
  <1>11. CASE Compare(i)
    <2>1. /\ attempt[i].phase = "comparing"
          /\ attempt'[i].phase \in {"posted", "undoing"}
          /\ attempt'[i].child = attempt[i].child /\ attempt'[i].account = attempt[i].account
          /\ \A j \in Attempts \ {i} : attempt'[j] = attempt[j]
          /\ UNCHANGED <<busy, begun>>
      BY <1>11 DEF Compare, Post, shimVars, Attempt
    <2>q. QED BY <1>9, <2>1
  <1>12. CASE Callback(i)
    <2>1. /\ attempt[i].phase = "posted" /\ attempt'[i].phase = "over"
          /\ attempt'[i].child = attempt[i].child /\ attempt'[i].account = attempt[i].account
          /\ \A j \in Attempts \ {i} : attempt'[j] = attempt[j]
          /\ UNCHANGED <<busy, begun>>
      BY <1>12 DEF Callback, Move, shimVars, Attempt
    <2>q. QED BY <1>9, <2>1
  <1>13. CASE TimesOut(i)
    <2>1. /\ attempt[i].phase = "calling" /\ attempt'[i].phase = "stopping"
          /\ attempt'[i].child = attempt[i].child /\ attempt'[i].account = attempt[i].account
          /\ \A j \in Attempts \ {i} : attempt'[j] = attempt[j]
          /\ UNCHANGED <<busy, begun>>
      BY <1>13 DEF TimesOut, shimVars, Attempt
    <2>q. QED BY <1>9, <2>1
  <1>14. ASSUME attempt[i].child \notin {"none", "sent", "running", "ok", "err"}
                \/ attempt'[i].child \in {"running", "ok", "err"}
                \/ attempt[i].account \notin busy',
                attempt[i].child # "none", attempt'[i].child # "none",
                attempt'[i].phase = attempt[i].phase, attempt'[i].account = attempt[i].account,
                \A j \in Attempts \ {i} : attempt'[j] = attempt[j],
                busy' \subseteq busy, UNCHANGED begun
        PROVE  HoldInv'
    <2>1. KeepsWorking(i)
      BY <1>14 DEF KeepsWorking, Working
    <2>2. ~(i > begun)
      BY <1>14
    <2>3. attempt'[i].phase \notin Early
      BY <1>14
    <2>q. QED BY <1>14, <2>1, <2>2, <2>3, OneChanges
  <1>15. CASE CallTimesOut(i)
    <2>1. /\ attempt[i].child = "running" /\ attempt'[i].child = "err"
          /\ attempt'[i].phase = attempt[i].phase /\ attempt'[i].account = attempt[i].account
          /\ \A j \in Attempts \ {i} : attempt'[j] = attempt[j]
          /\ UNCHANGED <<busy, begun>>
      BY <1>15 DEF CallTimesOut, shimVars, Attempt
    <2>q. QED BY <1>14, <2>1
  <1>16. CASE LetGo(i)
    <2>1. /\ attempt[i].child \in {"ok", "err"} /\ attempt[i].account \notin busy'
          /\ attempt'[i].child \in {"failed", "undoing", "kept"}
          /\ attempt'[i].phase = attempt[i].phase /\ attempt'[i].account = attempt[i].account
          /\ \A j \in Attempts \ {i} : attempt'[j] = attempt[j]
          /\ busy' \subseteq busy /\ UNCHANGED begun
      BY <1>16 DEF LetGo, Release, Attempt
    <2>q. QED BY <1>14, <2>1
  <1>17. CASE ChildReturns(i)
    <2>1. /\ attempt[i].child \in {"kept", "failed"} /\ attempt'[i].child = "returned"
          /\ attempt'[i].phase = attempt[i].phase /\ attempt'[i].account = attempt[i].account
          /\ \A j \in Attempts \ {i} : attempt'[j] = attempt[j]
          /\ UNCHANGED <<busy, begun>>
      BY <1>17 DEF ChildReturns, shimVars, Attempt
    <2>q. QED BY <1>14, <2>1
  <1>18. CASE Undo(i)
    <2>1. CutShort(attempt[i].account) \in [Attempts -> Attempt]
      BY CutShortType
    <2>2. /\ attempt[i].phase = "undoing" /\ attempt'[i].phase = "posted"
          /\ attempt'[i].account = CutShort(attempt[i].account)[i].account
          /\ attempt'[i].child = CutShort(attempt[i].account)[i].child
          /\ \A j \in Attempts \ {i} : attempt'[j] = CutShort(attempt[i].account)[j]
          /\ UNCHANGED <<busy, begun>>
      BY <1>18, <2>1 DEF Undo, shimVars, Attempt
    <2>3. KeepsWorking(i)
      BY <2>2, CutShortType DEF KeepsWorking, Working
    <2>5. \A j \in Attempts \ {i} :
              /\ attempt'[j].phase = attempt[j].phase /\ attempt'[j].kind = attempt[j].kind
              /\ attempt'[j].account = attempt[j].account
              /\ \/ attempt'[j].child = attempt[j].child
                 \/ attempt[j].child = "running" /\ attempt'[j].child \in {"ok", "err"}
      BY <2>2, CutShortType
    <2>6. attempt[i].phase # "idle" /\ attempt'[i].phase \notin Early
      BY <2>2
    <2>7. UNCHANGED <<busy, begun>>
      BY <2>2
    <2> HIDE DEF Early, Picking
    <2>q. QED BY <2>3, <2>5, <2>6, <2>7, CallEnds
  <1>19. CASE StopOwn(i)
    <2>1. CutShort(attempt[i].account) \in [Attempts -> Attempt]
      BY CutShortType
    <2>2. /\ attempt[i].phase = "stopping" /\ attempt'[i].phase = "posted"
          /\ attempt'[i].account = CutShort(attempt[i].account)[i].account
          /\ attempt'[i].child = CutShort(attempt[i].account)[i].child
          /\ \A j \in Attempts \ {i} : attempt'[j] = CutShort(attempt[i].account)[j]
          /\ UNCHANGED <<busy, begun>>
      BY <1>19, <2>1 DEF StopOwn, shimVars, Attempt
    <2>3. KeepsWorking(i)
      BY <2>2, CutShortType DEF KeepsWorking, Working
    <2>5. \A j \in Attempts \ {i} :
              /\ attempt'[j].phase = attempt[j].phase /\ attempt'[j].kind = attempt[j].kind
              /\ attempt'[j].account = attempt[j].account
              /\ \/ attempt'[j].child = attempt[j].child
                 \/ attempt[j].child = "running" /\ attempt'[j].child \in {"ok", "err"}
      BY <2>2, CutShortType
    <2>6. attempt[i].phase # "idle" /\ attempt'[i].phase \notin Early
      BY <2>2
    <2>7. UNCHANGED <<busy, begun>>
      BY <2>2
    <2> HIDE DEF Early, Picking
    <2>q. QED BY <2>3, <2>5, <2>6, <2>7, CallEnds
  <1>20. CASE ChildUndoes(i)
    <2>1. CutShort(attempt[i].account) \in [Attempts -> Attempt]
      BY CutShortType
    <2>2. /\ attempt[i].child = "undoing" /\ attempt'[i].child = "returned"
          /\ attempt'[i].account = CutShort(attempt[i].account)[i].account
          /\ attempt'[i].phase = CutShort(attempt[i].account)[i].phase
          /\ \A j \in Attempts \ {i} : attempt'[j] = CutShort(attempt[i].account)[j]
          /\ UNCHANGED <<busy, begun>>
      BY <1>20, <2>1 DEF ChildUndoes, shimVars, Attempt
    <2>3. KeepsWorking(i)
      BY <2>2, CutShortType DEF KeepsWorking, Working
    <2>4. attempt[i].phase \notin Early /\ attempt'[i].phase \notin Early
      BY <2>2, CutShortType
    <2>5. \A j \in Attempts \ {i} :
              /\ attempt'[j].phase = attempt[j].phase /\ attempt'[j].kind = attempt[j].kind
              /\ attempt'[j].account = attempt[j].account
              /\ \/ attempt'[j].child = attempt[j].child
                 \/ attempt[j].child = "running" /\ attempt'[j].child \in {"ok", "err"}
      BY <2>2, CutShortType
    <2>6. attempt[i].phase # "idle" /\ UNCHANGED <<busy, begun>>
      BY <2>2, <2>4
    <2> HIDE DEF Early, Picking
    <2>q. QED BY <2>3, <2>4, <2>5, <2>6, CallEnds
  <1>q. QED BY <1>1, <1>3, <1>4, <1>5, <1>6, <1>7, <1>8, <1>10, <1>11, <1>12, <1>13, <1>15, <1>16,
               <1>17, <1>18, <1>19, <1>20 DEF Task, Child

\* What the core does, and what reaches it late.
LEMMA HoldCore ==
    ASSUME HoldInv, TypeInv',
           \/ \E i \in Attempts : CoreTakesUp(i)
           \/ \E a \in Accounts, ok \in BOOLEAN : CoreEnds(a, ok)
           \/ \E s \in stops : StopLands(s)
           \/ \E r \in removals : RemovalLands(r)
    PROVE  HoldInv'
  <1>0. attempt \in [Attempts -> Attempt] /\ begun \in Nat
    BY DEF HoldInv, TypeInv, TypeOK
  <1>1. ASSUME NEW i \in Attempts, CoreTakesUp(i) PROVE HoldInv'
    <2>1. /\ attempt[i].child = "sent" /\ attempt'[i].child \in {"running", "err"}
          /\ attempt'[i].phase = attempt[i].phase /\ attempt'[i].account = attempt[i].account
          /\ \A j \in Attempts \ {i} : attempt'[j] = attempt[j]
          /\ UNCHANGED <<busy, begun>>
      BY <1>0, <1>1 DEF CoreTakesUp, shimVars, Attempt
    <2>2. KeepsWorking(i)
      BY <2>1 DEF KeepsWorking, Working
    <2>3. attempt[i].phase \notin Early
      BY <2>1 DEF HoldInv, ChildComes
    <2>4. ~(i > begun)
      BY <2>3 DEF HoldInv, ChildComes, Early
    <2>q. QED BY <1>0, <2>1, <2>2, <2>3, <2>4, OneChanges DEF Early, Picking
  <1>2. ASSUME NEW a \in Accounts, NEW ok \in BOOLEAN, CoreEnds(a, ok) PROVE HoldInv'
    <2>1. /\ \A j \in Attempts :
              /\ attempt'[j].phase = attempt[j].phase /\ attempt'[j].kind = attempt[j].kind
              /\ attempt'[j].account = attempt[j].account
              /\ \/ attempt'[j].child = attempt[j].child
                 \/ attempt[j].child = "running" /\ attempt'[j].child \in {"ok", "err"}
          /\ UNCHANGED <<busy, begun>>
      BY <1>0, <1>2 DEF CoreEnds, shimVars, Attempt
    <2>q. QED BY <2>1, CallsChange, {} \in SUBSET Attempts
  <1>3. ASSUME NEW a, attempt' = CutShort(a), UNCHANGED <<busy, begun>> PROVE HoldInv'
    <2>1. \A j \in Attempts :
              /\ attempt'[j].phase = attempt[j].phase /\ attempt'[j].kind = attempt[j].kind
              /\ attempt'[j].account = attempt[j].account
              /\ \/ attempt'[j].child = attempt[j].child
                 \/ attempt[j].child = "running" /\ attempt'[j].child \in {"ok", "err"}
      BY <1>0, <1>3, CutShortType
    <2>q. QED BY <1>3, <2>1, CallsChange, {} \in SUBSET Attempts
  <1>4. ASSUME NEW s \in stops, StopLands(s) PROVE HoldInv'
    BY <1>3, <1>4 DEF StopLands, shimVars
  <1>5. ASSUME NEW r \in removals, RemovalLands(r) PROVE HoldInv'
    BY <1>3, <1>5 DEF RemovalLands, shimVars
  <1>q. QED BY <1>1, <1>2, <1>4, <1>5

LEMMA HoldStep == HoldInv /\ [Next]_vars => HoldInv'
  <1> SUFFICES ASSUME HoldInv, [Next]_vars PROVE HoldInv'
    OBVIOUS
  <1>1. TypeInv'
    BY TypeStep DEF HoldInv
  <1>2. CASE UNCHANGED vars
    BY <1>1, <1>2 DEF HoldInv, HoldsEnd, ChildComes, Working, vars, shimVars
  <1>3. CASE Runtime
    <2>1. ASSUME NEW i \in Attempts, Task(i) \/ Child(i) \/ TimesOut(i) \/ CallTimesOut(i) PROVE HoldInv'
      BY <1>1, <2>1, HoldTask
    <2>q. QED BY <1>1, <1>3, <2>1, HoldCore DEF Runtime
  <1>4. CASE \E k \in Kinds, a \in Accounts \cup {NoAccount} : Begin(k, a)
    BY <1>1, <1>4, HoldApp
  <1>5. CASE Cancel
    <2>1. "profile" \in Kinds /\ NoAccount \in Accounts \cup {NoAccount}
      BY DEF Kinds
    <2>q. QED BY <1>1, <1>5, <2>1, HoldApp
  <1>6. CASE \E a \in Accounts, ok \in BOOLEAN : CoreEnds(a, ok)
    BY <1>1, <1>6, HoldCore
  <1>q. QED BY <1>2, <1>3, <1>4, <1>5, <1>6 DEF Next

\* No account is held for ever: whatever attempts are cancelled, refused, timed out or come
\* to share an account, one of them will let go of it (Busy, in signup.rs).
THEOREM HeldIsLetGo == Spec => []HoldsEnd
  <1>1. HoldInv => HoldsEnd
    BY DEF HoldInv
  <1>q. QED BY <1>1, HoldInit, HoldStep, PTL DEF Spec

-----------------------------------------------------------------------------
(* The reader's own profiles *)

\* Only an attempt that makes or takes over a profile undoes one, and never on an account
\* of the reader's.
UndoesOwn ==
    /\ \A i \in Attempts :
          /\ attempt[i].phase = "idle" => attempt[i].account = NoAccount /\ attempt[i].free = {}
          /\ attempt[i].kind # "relay" => attempt[i].account \notin Mine
          /\ attempt[i].free \cap Mine = {}
          /\ attempt[i].phase \in {"comparing", "undoing"} \/ attempt[i].child = "undoing"
                => attempt[i].kind # "relay"
    /\ \A r \in removals : r[2] \notin Mine

KeptInv == HoldInv /\ ReadersKept /\ UndoesOwn

LEMMA KeptInit == Init => KeptInv
  BY HoldInit, SignupAssumption DEF Init, KeptInv, ReadersKept, UndoesOwn, Accounts, Attempts

\* What keeps ReadersKept: the core's accounts, of which at most others change.
LEMMA OthersChange ==
    ASSUME TypeInv, ReadersKept, NEW a \in (Accounts \cup {NoAccount}) \ Mine, NEW k,
           kind' = [kind EXCEPT ![a] = k]
    PROVE  ReadersKept'
  BY DEF ReadersKept, TypeInv, TypeOK, Accounts

\* The record of attempt i, when it is the one that changes.
OwnStep(i) ==
    /\ attempt'[i].phase = "idle" => attempt'[i].account = NoAccount /\ attempt'[i].free = {}
    /\ attempt'[i].kind # "relay" => attempt'[i].account \notin Mine
    /\ attempt'[i].free \cap Mine = {}
    /\ attempt'[i].phase \in {"comparing", "undoing"} \/ attempt'[i].child = "undoing"
          => attempt'[i].kind # "relay"

\* An attempt that changes only its child, not to undoing, or its phase, to none of those
\* UndoesOwn speaks of.
LEMMA PlainStep ==
    ASSUME UndoesOwn, NEW i \in Attempts,
           attempt'[i].kind = attempt[i].kind, attempt'[i].account = attempt[i].account,
           attempt'[i].free = attempt[i].free \/ attempt'[i].free = {},
           attempt'[i].child = attempt[i].child \/ attempt'[i].child # "undoing",
           attempt'[i].phase = attempt[i].phase \/ attempt'[i].phase \notin {"idle", "comparing", "undoing"}
    PROVE  OwnStep(i)
  BY DEF UndoesOwn, OwnStep

LEMMA OwnSteps ==
    ASSUME \A i \in Attempts : OwnStep(i), \A r \in removals' : r[2] \notin Mine
    PROVE  UndoesOwn'
  BY DEF UndoesOwn, OwnStep

\* The steps of attempt i, its child and its callback.
LEMMA KeptTask ==
    ASSUME KeptInv, HoldInv', NEW i \in Attempts,
           Task(i) \/ Child(i) \/ TimesOut(i) \/ CallTimesOut(i)
    PROVE  ReadersKept' /\ UndoesOwn'
  <1>0. /\ UndoesOwn /\ ReadersKept /\ TypeInv /\ attempt \in [Attempts -> Attempt]
        /\ attempt[i].phase \in Picking => attempt[i].kind # "relay"
        /\ \A j \in Attempts : attempt'[j] = attempt[j] => OwnStep(j)
    BY DEF KeptInv, HoldInv, TypeInv, TypeOK, ChildComes, UndoesOwn, OwnStep
  <1> USE <1>0
  <1>a. ASSUME OwnStep(i), \A j \in Attempts \ {i} : attempt'[j] = attempt[j],
               UNCHANGED kind \/ ReadersKept', UNCHANGED removals \/ \A r \in removals' : r[2] \notin Mine
        PROVE  ReadersKept' /\ UndoesOwn'
    <2>1. \A j \in Attempts : OwnStep(j)
      BY <1>a
    <2>2. \A r \in removals' : r[2] \notin Mine
      BY <1>a DEF UndoesOwn
    <2>q. QED BY <1>a, <2>1, <2>2, OwnSteps DEF ReadersKept
  <1>b. \A a \in Accounts : kind[a] = "Unconfigured" => a \notin Mine
    BY DEF ReadersKept
  <1>1. CASE ListAccounts(i)
    <2>1. /\ attempt'[i].kind = attempt[i].kind /\ attempt'[i].account = attempt[i].account
          /\ attempt'[i].child = attempt[i].child
          /\ attempt'[i].phase \in {"listed", "posted"}
          /\ \/ attempt'[i].free = attempt[i].free
             \/ attempt'[i].free = {a \in Accounts : kind[a] = "Unconfigured"}
          /\ \A j \in Attempts \ {i} : attempt'[j] = attempt[j]
          /\ UNCHANGED <<kind, removals>>
      BY <1>1 DEF ListAccounts, Post, coreVars, Attempt
    <2>2. attempt'[i].free \cap Mine = {}
      BY <2>1, <1>b DEF UndoesOwn
    <2>3. OwnStep(i)
      BY <2>1, <2>2 DEF UndoesOwn, OwnStep
    <2>q. QED BY <2>1, <2>3, <1>a
  <1>2. ASSUME NEW a \in Accounts \ Mine, Take(i, a), UNCHANGED <<kind, removals>>
        PROVE  ReadersKept' /\ UndoesOwn'
    <2>1. /\ attempt'[i].account = a /\ attempt'[i].free = {}
          /\ attempt'[i].phase = AfterPick(i) /\ attempt'[i].child \in {"sent", "none"}
          /\ \A j \in Attempts \ {i} : attempt'[j] = attempt[j]
      BY <1>2 DEF Take, Attempt
    <2>2. AfterPick(i) \in {"naming", "checking", "calling"}
      BY DEF AfterPick
    <2>3. OwnStep(i)
      BY <2>1, <2>2 DEF OwnStep
    <2>q. QED BY <1>2, <2>1, <2>3, <1>a
  <1>3. CASE Pick(i)
    <2>1. CASE \E a \in attempt[i].free \ busy : Take(i, a)
      <3>1. PICK a \in attempt[i].free : Take(i, a)
        BY <2>1
      <3>2. a \in Accounts \ Mine
        BY DEF Attempt, UndoesOwn
      <3>q. QED BY <1>2, <1>3, <3>1, <3>2 DEF Pick, coreVars
    <2>2. CASE ~\E a \in attempt[i].free \ busy : Take(i, a)
      <3>1. /\ attempt' = [attempt EXCEPT ![i].phase = "adding", ![i].free = {}]
            /\ UNCHANGED <<kind, removals>>
        BY <1>3, <2>2 DEF Pick, coreVars
      <3>2. OwnStep(i)
        BY <3>1 DEF Attempt, UndoesOwn, OwnStep
      <3>3. \A j \in Attempts \ {i} : attempt'[j] = attempt[j]
        BY <3>1
      <3>q. QED BY <3>1, <3>2, <3>3, <1>a
    <2>q. QED BY <2>1, <2>2
  <1>4. CASE AddAccount(i)
    <2>1. CASE Post(i, "failed") /\ UNCHANGED coreVars
      <3>1. /\ attempt' = [attempt EXCEPT ![i].phase = "posted", ![i].outcome = "failed"]
            /\ UNCHANGED <<kind, removals>>
        BY <1>4, <2>1 DEF AddAccount, Post, coreVars
      <3>2. OwnStep(i)
        BY <3>1 DEF Attempt, UndoesOwn, OwnStep
      <3>3. \A j \in Attempts \ {i} : attempt'[j] = attempt[j]
        BY <3>1
      <3>q. QED BY <3>1, <3>2, <3>3, <1>a
    <2>2. CASE ~(Post(i, "failed") /\ UNCHANGED coreVars)
      <3>1. PICK a \in New \ used :
               /\ kind' = [kind EXCEPT ![a] = "Unconfigured"]
               /\ attempt' = [attempt EXCEPT ![i].phase = "added", ![i].account = a]
               /\ UNCHANGED removals
        BY <1>4, <2>2 DEF AddAccount
      <3>2. a \in Accounts \ Mine
        BY SignupAssumption DEF Accounts
      <3>3. OwnStep(i)
        BY <3>1, <3>2 DEF Attempt, UndoesOwn, OwnStep
      <3>4. \A j \in Attempts \ {i} : attempt'[j] = attempt[j]
        BY <3>1
      <3>5. ReadersKept'
        BY <3>1, <3>2, OthersChange
      <3>q. QED BY <3>1, <3>3, <3>4, <3>5, <1>a
    <2>q. QED BY <2>1, <2>2
  <1>5. CASE Added(i)
    <2>1. attempt[i].account \in Accounts \ Mine
      BY <1>5 DEF Added, UndoesOwn, Picking, TypeInv, AccountKnown, Holding
    <2>q. QED BY <1>2, <1>5, <2>1 DEF Added, coreVars
  <1>6. CASE SetName(i)
    <2>1. /\ attempt'[i].kind = attempt[i].kind /\ attempt'[i].account = attempt[i].account
          /\ attempt'[i].free = attempt[i].free
          /\ attempt'[i].child = attempt[i].child \/ attempt'[i].child # "undoing"
          /\ attempt'[i].phase = attempt[i].phase \/ attempt'[i].phase \notin {"idle", "comparing", "undoing"}
          /\ \A j \in Attempts \ {i} : attempt'[j] = attempt[j]
          /\ UNCHANGED <<kind, removals>>
      BY <1>6 DEF SetName, Post, coreVars, Attempt
    <2>2. OwnStep(i)
      BY <2>1, PlainStep
    <2>q. QED BY <2>1, <2>2, <1>a
  <1>7. CASE CheckCode(i)
    <2>1. /\ attempt'[i].kind = attempt[i].kind /\ attempt'[i].account = attempt[i].account
          /\ attempt'[i].free = attempt[i].free
          /\ attempt'[i].child = attempt[i].child \/ attempt'[i].child # "undoing"
          /\ attempt'[i].phase = attempt[i].phase \/ attempt'[i].phase \notin {"idle", "comparing", "undoing"}
          /\ \A j \in Attempts \ {i} : attempt'[j] = attempt[j]
          /\ UNCHANGED <<kind, removals>>
      BY <1>7 DEF CheckCode, Post, coreVars, Attempt
    <2>2. OwnStep(i)
      BY <2>1, PlainStep
    <2>q. QED BY <2>1, <2>2, <1>a
  <1>8. CASE AddTransport(i)
    <2>1. /\ attempt'[i].kind = attempt[i].kind /\ attempt'[i].account = attempt[i].account
          /\ attempt'[i].free = attempt[i].free
          /\ attempt'[i].child = attempt[i].child \/ attempt'[i].child # "undoing"
          /\ attempt'[i].phase = attempt[i].phase \/ attempt'[i].phase \notin {"idle", "comparing", "undoing"}
          /\ \A j \in Attempts \ {i} : attempt'[j] = attempt[j]
          /\ UNCHANGED <<kind, removals>>
      BY <1>8 DEF AddTransport, coreVars, Attempt
    <2>2. OwnStep(i)
      BY <2>1, PlainStep
    <2>q. QED BY <2>1, <2>2, <1>a
  <1>9. CASE TimesOut(i)
    <2>1. /\ attempt'[i].kind = attempt[i].kind /\ attempt'[i].account = attempt[i].account
          /\ attempt'[i].free = attempt[i].free
          /\ attempt'[i].child = attempt[i].child \/ attempt'[i].child # "undoing"
          /\ attempt'[i].phase = attempt[i].phase \/ attempt'[i].phase \notin {"idle", "comparing", "undoing"}
          /\ \A j \in Attempts \ {i} : attempt'[j] = attempt[j]
          /\ UNCHANGED <<kind, removals>>
      BY <1>9 DEF TimesOut, coreVars, Attempt
    <2>2. OwnStep(i)
      BY <2>1, PlainStep
    <2>q. QED BY <2>1, <2>2, <1>a
  <1>10. CASE CallTimesOut(i)
    <2>1. /\ attempt'[i].kind = attempt[i].kind /\ attempt'[i].account = attempt[i].account
          /\ attempt'[i].free = attempt[i].free
          /\ attempt'[i].child = attempt[i].child \/ attempt'[i].child # "undoing"
          /\ attempt'[i].phase = attempt[i].phase \/ attempt'[i].phase \notin {"idle", "comparing", "undoing"}
          /\ \A j \in Attempts \ {i} : attempt'[j] = attempt[j]
          /\ UNCHANGED <<kind, removals>>
      BY <1>10 DEF CallTimesOut, coreVars, Attempt
    <2>2. OwnStep(i)
      BY <2>1, PlainStep
    <2>q. QED BY <2>1, <2>2, <1>a
  <1>11. CASE ChildReturns(i)
    <2>1. /\ attempt'[i].kind = attempt[i].kind /\ attempt'[i].account = attempt[i].account
          /\ attempt'[i].free = attempt[i].free
          /\ attempt'[i].child = attempt[i].child \/ attempt'[i].child # "undoing"
          /\ attempt'[i].phase = attempt[i].phase \/ attempt'[i].phase \notin {"idle", "comparing", "undoing"}
          /\ \A j \in Attempts \ {i} : attempt'[j] = attempt[j]
          /\ UNCHANGED <<kind, removals>>
      BY <1>11 DEF ChildReturns, coreVars, Attempt
    <2>2. OwnStep(i)
      BY <2>1, PlainStep
    <2>q. QED BY <2>1, <2>2, <1>a
  <1>12. CASE Joined(i)
    <2>1. /\ attempt'[i].kind = attempt[i].kind /\ attempt'[i].account = attempt[i].account
          /\ attempt'[i].free = attempt[i].free /\ attempt'[i].child = attempt[i].child
          /\ attempt[i].phase = "calling" /\ attempt'[i].phase # "idle"
          /\ attempt'[i].phase \in {"comparing", "undoing"} => Restores(i)
          /\ \A j \in Attempts \ {i} : attempt'[j] = attempt[j]
          /\ UNCHANGED <<kind, removals>>
      BY <1>12 DEF Joined, Post, Move, coreVars, Attempt
    <2>2. OwnStep(i)
      BY <2>1 DEF UndoesOwn, OwnStep, Restores
    <2>q. QED BY <2>1, <2>2, <1>a
  <1>13. CASE Compare(i)
    <2>1. /\ attempt'[i].kind = attempt[i].kind /\ attempt'[i].account = attempt[i].account
          /\ attempt'[i].free = attempt[i].free /\ attempt'[i].child = attempt[i].child
          /\ attempt[i].phase = "comparing" /\ attempt'[i].phase \in {"posted", "undoing"}
          /\ \A j \in Attempts \ {i} : attempt'[j] = attempt[j]
          /\ UNCHANGED <<kind, removals>>
      BY <1>13 DEF Compare, Post, coreVars, Attempt
    <2>2. OwnStep(i)
      BY <2>1 DEF UndoesOwn, OwnStep
    <2>q. QED BY <2>1, <2>2, <1>a
  <1>14. CASE Callback(i)
    <2>1. /\ attempt[i].phase = "posted" /\ attempt'[i] = [attempt[i] EXCEPT !.phase = "over"]
          /\ \A j \in Attempts \ {i} : attempt'[j] = attempt[j]
          /\ UNCHANGED kind
          /\ \/ UNCHANGED removals
             \/ attempt[i].kind # "relay" /\ removals' = removals \cup {<<i, attempt[i].account>>}
      BY <1>14 DEF Callback, Move, coreVars, Attempt
    <2>2. OwnStep(i)
      BY <2>1 DEF Attempt, UndoesOwn, OwnStep
    <2>3. \A r \in removals' : r[2] \notin Mine
      BY <2>1 DEF UndoesOwn
    <2>q. QED BY <2>1, <2>2, <2>3, <1>a
  <1>15. CASE LetGo(i)
    <2>1. /\ attempt'[i].kind = attempt[i].kind /\ attempt'[i].account = attempt[i].account
          /\ attempt'[i].free = attempt[i].free /\ attempt'[i].phase = attempt[i].phase
          /\ attempt'[i].child = "undoing" => attempt[i].kind # "relay"
          /\ \A j \in Attempts \ {i} : attempt'[j] = attempt[j]
          /\ UNCHANGED <<kind, removals>>
      BY <1>15 DEF LetGo, coreVars, Attempt
    <2>2. OwnStep(i)
      BY <2>1 DEF UndoesOwn, OwnStep
    <2>q. QED BY <2>1, <2>2, <1>a
  <1>16. ASSUME NEW a, \A j \in Attempts \ {i} : attempt'[j] = CutShort(a)[j],
                OwnStep(i), UNCHANGED removals, UNCHANGED kind \/ ReadersKept'
         PROVE  ReadersKept' /\ UndoesOwn'
    <2>1. ASSUME NEW j \in Attempts \ {i} PROVE OwnStep(j)
      <3>1. /\ attempt'[j].kind = attempt[j].kind /\ attempt'[j].account = attempt[j].account
            /\ attempt'[j].free = attempt[j].free /\ attempt'[j].phase = attempt[j].phase
            /\ attempt'[j].child = attempt[j].child \/ attempt'[j].child = "err"
        BY <1>16, CutShortType
      <3>q. QED BY <3>1, PlainStep
    <2>2. \A r \in removals' : r[2] \notin Mine
      BY <1>16 DEF UndoesOwn
    <2>q. QED BY <1>16, <2>1, <2>2, OwnSteps DEF ReadersKept
  <1>17. CASE Undo(i)
    <2> DEFINE a == attempt[i].account
    <2>1. CutShort(a) \in [Attempts -> Attempt]
      BY CutShortType
    <2>2. /\ attempt[i].phase = "undoing" /\ attempt'[i] = [CutShort(a)[i] EXCEPT !.phase = "posted"]
          /\ \A j \in Attempts \ {i} : attempt'[j] = CutShort(a)[j]
          /\ kind' = [kind EXCEPT ![a] = "none"] /\ UNCHANGED removals
      BY <1>17, <2>1 DEF Undo, Removed
    <2>3. a \in (Accounts \cup {NoAccount}) \ Mine
      BY <2>2 DEF UndoesOwn, Attempt
    <2>4. /\ attempt'[i].kind = attempt[i].kind /\ attempt'[i].account = attempt[i].account
          /\ attempt'[i].free = attempt[i].free /\ attempt'[i].phase = "posted"
          /\ attempt'[i].child = attempt[i].child \/ attempt'[i].child = "err"
      BY <2>1, <2>2, CutShortType DEF Attempt
    <2>5. OwnStep(i)
      BY <2>4, PlainStep
    <2>6. ReadersKept'
      BY <2>2, <2>3, OthersChange
    <2>q. QED BY <2>2, <2>5, <2>6, <1>16
  <1>18. CASE StopOwn(i)
    <2> DEFINE a == attempt[i].account
    <2>1. CutShort(a) \in [Attempts -> Attempt]
      BY CutShortType
    <2>2. /\ attempt'[i].kind = CutShort(a)[i].kind /\ attempt'[i].account = CutShort(a)[i].account
          /\ attempt'[i].free = CutShort(a)[i].free /\ attempt'[i].phase = "posted"
          /\ attempt'[i].child = CutShort(a)[i].child
          /\ \A j \in Attempts \ {i} : attempt'[j] = CutShort(a)[j]
          /\ UNCHANGED <<kind, removals>>
      BY <1>18, <2>1 DEF StopOwn, Attempt
    <2>3. OwnStep(i)
      BY <2>2, CutShortType, PlainStep
    <2>q. QED BY <2>2, <2>3, <1>16
  <1>19. CASE ChildUndoes(i)
    <2> DEFINE a == attempt[i].account
    <2>1. CutShort(a) \in [Attempts -> Attempt]
      BY CutShortType
    <2>2. /\ attempt[i].child = "undoing" /\ attempt'[i] = [CutShort(a)[i] EXCEPT !.child = "returned"]
          /\ \A j \in Attempts \ {i} : attempt'[j] = CutShort(a)[j]
          /\ kind' = [kind EXCEPT ![a] = "none"] /\ UNCHANGED removals
      BY <1>19, <2>1 DEF ChildUndoes, Removed
    <2>3. a \in (Accounts \cup {NoAccount}) \ Mine
      BY <2>2 DEF UndoesOwn, Attempt
    <2>4. /\ attempt'[i].kind = attempt[i].kind /\ attempt'[i].account = attempt[i].account
          /\ attempt'[i].free = attempt[i].free /\ attempt'[i].phase = attempt[i].phase
          /\ attempt'[i].child = "returned"
      BY <2>1, <2>2, CutShortType DEF Attempt
    <2>5. OwnStep(i)
      BY <2>4, PlainStep
    <2>6. ReadersKept'
      BY <2>2, <2>3, OthersChange
    <2>q. QED BY <2>2, <2>5, <2>6, <1>16
  <1>q. QED BY <1>1, <1>3, <1>4, <1>5, <1>6, <1>7, <1>8, <1>9, <1>10, <1>11, <1>12, <1>13, <1>14,
               <1>15, <1>17, <1>18, <1>19 DEF Task, Child

\* The other steps.
LEMMA KeptStep == KeptInv /\ [Next]_vars => KeptInv'
  <1> SUFFICES ASSUME KeptInv, [Next]_vars PROVE ReadersKept' /\ UndoesOwn'
    BY HoldStep DEF KeptInv
  <1>0. /\ HoldInv' /\ UndoesOwn /\ ReadersKept /\ TypeInv /\ attempt \in [Attempts -> Attempt]
        /\ kind \in [Accounts -> {"none", "Unconfigured", "Configured"}]
    BY HoldStep DEF KeptInv, HoldInv, TypeInv, TypeOK
  <1> USE <1>0
  <1>1. CASE UNCHANGED vars
    BY <1>1 DEF ReadersKept, UndoesOwn, vars, shimVars, coreVars
  <1>2. ASSUME NEW k \in Kinds, NEW b \in Accounts \cup {NoAccount}, Begin(k, b)
        PROVE  ReadersKept' /\ UndoesOwn'
    <2>1. PICK i \in Attempts : i = begun + 1 /\ i > begun
      BY <1>2, SignupAssumption DEF Begin, TypeInv, TypeOK, Attempts
    <2>2. attempt[i].phase = "idle" /\ attempt[i].child = "none"
      BY <2>1 DEF KeptInv, HoldInv, ChildComes, Early
    <2>3. /\ attempt'[i].phase \in {"starting", "listing"} /\ attempt'[i].child = "none"
          /\ attempt'[i].free = {}
          /\ attempt'[i].account = NoAccount \/ attempt'[i].kind = "relay"
          /\ \A j \in Attempts \ {i} : attempt'[j] = attempt[j]
          /\ UNCHANGED <<kind, removals>>
      <3>1. attempt[i].account = NoAccount /\ attempt[i].free = {}
        BY <2>2 DEF UndoesOwn
      <3>2. CASE k # "relay"
        <4>1. /\ attempt' = [attempt EXCEPT ![i].kind = k, ![i].phase = "listing"]
              /\ UNCHANGED <<kind, removals>>
          BY <1>2, <2>1, <3>2 DEF Begin, coreVars
        <4>q. QED BY <2>1, <2>2, <3>1, <4>1 DEF Attempt
      <3>3. CASE k = "relay"
        <4>1. /\ attempt' = [attempt EXCEPT ![i].kind = k, ![i].phase = "starting", ![i].account = b]
              /\ UNCHANGED <<kind, removals>>
          BY <1>2, <2>1, <3>3 DEF Begin, coreVars
        <4>q. QED BY <2>1, <2>2, <3>1, <3>3, <4>1 DEF Attempt
      <3>q. QED BY <3>2, <3>3
    <2>4. NoAccount \notin Mine
      BY SignupAssumption DEF Accounts
    <2>5. ASSUME NEW j \in Attempts PROVE OwnStep(j)
      <3>1. CASE j = i
        BY <2>3, <2>4, <3>1 DEF OwnStep
      <3>2. CASE j # i
        BY <2>3, <3>2 DEF UndoesOwn, OwnStep
      <3>q. QED BY <3>1, <3>2
    <2>6. \A r \in removals' : r[2] \notin Mine
      BY <2>3 DEF UndoesOwn
    <2>q. QED BY <2>3, <2>5, <2>6, OwnSteps DEF ReadersKept
  <1>3. CASE Cancel
    BY <1>3 DEF Cancel, ReadersKept, UndoesOwn, coreVars
  <1>4. ASSUME \A j \in Attempts :
                   /\ attempt'[j].kind = attempt[j].kind /\ attempt'[j].account = attempt[j].account
                   /\ attempt'[j].free = attempt[j].free /\ attempt'[j].phase = attempt[j].phase
                   /\ attempt'[j].child = attempt[j].child \/ attempt'[j].child # "undoing",
               removals' \subseteq removals
        PROVE  UndoesOwn'
    <2>1. \A j \in Attempts : OwnStep(j)
      BY <1>4, PlainStep
    <2>q. QED BY <1>4, <2>1, OwnSteps DEF UndoesOwn
  <1>5. ASSUME NEW i \in Attempts, CoreTakesUp(i) PROVE ReadersKept' /\ UndoesOwn'
    <2>1. /\ \A j \in Attempts :
                /\ attempt'[j].kind = attempt[j].kind /\ attempt'[j].account = attempt[j].account
                /\ attempt'[j].free = attempt[j].free /\ attempt'[j].phase = attempt[j].phase
                /\ attempt'[j].child = attempt[j].child \/ attempt'[j].child # "undoing"
          /\ UNCHANGED <<kind, removals>>
      BY <1>5 DEF CoreTakesUp, Attempt
    <2>q. QED BY <1>4, <2>1 DEF ReadersKept
  <1>6. ASSUME NEW a \in Accounts, NEW ok \in BOOLEAN, CoreEnds(a, ok)
        PROVE  ReadersKept' /\ UndoesOwn'
    <2>1. /\ \A j \in Attempts :
                /\ attempt'[j].kind = attempt[j].kind /\ attempt'[j].account = attempt[j].account
                /\ attempt'[j].free = attempt[j].free /\ attempt'[j].phase = attempt[j].phase
                /\ attempt'[j].child = attempt[j].child \/ attempt'[j].child # "undoing"
          /\ UNCHANGED removals
      BY <1>6 DEF CoreEnds, Attempt
    <2>2. kind' = kind \/ kind' = [kind EXCEPT ![a] = "Configured"]
      BY <1>6 DEF CoreEnds
    <2>3. ReadersKept'
      BY <2>2 DEF ReadersKept, Accounts
    <2>q. QED BY <1>4, <2>1, <2>3
  <1>7. ASSUME NEW a, attempt' = CutShort(a), removals' \subseteq removals PROVE UndoesOwn'
    BY <1>4, <1>7, CutShortType
  <1>8. ASSUME NEW s \in stops, StopLands(s) PROVE ReadersKept' /\ UndoesOwn'
    BY <1>7, <1>8 DEF StopLands, ReadersKept
  <1>9. ASSUME NEW r \in removals, RemovalLands(r) PROVE ReadersKept' /\ UndoesOwn'
    <2>1. r[2] \in Accounts \ Mine
      BY DEF UndoesOwn, TypeInv, TypeOK
    <2>2. /\ kind' = [kind EXCEPT ![r[2]] = "none"]
          /\ attempt' = CutShort(r[2]) /\ removals' \subseteq removals
      BY <1>9 DEF RemovalLands, Removed
    <2>3. ReadersKept'
      BY <2>1, <2>2, OthersChange
    <2>q. QED BY <1>7, <2>2, <2>3
  <1>10. CASE Runtime
    <2>1. ASSUME NEW i \in Attempts, Task(i) \/ Child(i) \/ TimesOut(i) \/ CallTimesOut(i)
          PROVE  ReadersKept' /\ UndoesOwn'
      BY <2>1, KeptTask
    <2>q. QED BY <1>5, <1>8, <1>9, <1>10, <2>1 DEF Runtime
  <1>q. QED BY <1>1, <1>2, <1>3, <1>6, <1>10 DEF Next

\* No attempt, however it ends, was cancelled or came to share an account, undoes one of the
\* reader's own profiles (Made::Before, discard).
THEOREM ReadersStay == Spec => []ReadersKept
  <1>1. KeptInv => ReadersKept
    BY DEF KeptInv
  <1>q. QED BY <1>1, KeptInit, KeptStep, PTL DEF Spec

-----------------------------------------------------------------------------
(* Every profile made is the app's, or somebody undoes it *)

\* Calls that have not returned.
Active == {"sent", "running", "ok", "err", "kept", "failed", "undoing"}

\* Where an attempt is while its call has not returned: an import is joined whenever it
\* returns, a transport may outlive its deadline.  A relay goes to a profile the app has.
Placed(i) ==
    /\ attempt[i].child \in Active => \/ attempt[i].phase = "calling"
                                       \/ /\ ~Restores(i)
                                          /\ \/ attempt[i].phase = "stopping"
                                             \/ attempt[i].outcome = "timedOut"
    /\ attempt[i].outcome = "timedOut" => attempt[i].phase \in {"posted", "over"}
    /\ attempt[i].phase \in {"comparing", "undoing"} => Restores(i)
    /\ attempt[i].phase = "stopping" => ~Restores(i)
    /\ attempt[i].child # "none" => /\ attempt[i].account \in Accounts
                                    /\ attempt[i].phase \notin {"starting", "naming", "checking"}
    /\ attempt[i].ok => attempt[i].child = "returned"
    /\ attempt[i].kind = "relay" => attempt[i].account \in Mine \cup announced

\* The core's process on a, if it is attempt i's: its call is awaited, or was an import's,
\* given up by the client and about to be undone.
Owned(a, i) ==
    /\ attempt[i].account = a
    /\ \/ attempt[i].child = "running"
       \/ /\ Restores(i) /\ attempt[i].phase \in {"calling", "undoing"}
          /\ \/ attempt[i].child \in {"err", "failed"}
             \/ attempt[i].child = "returned" /\ ~attempt[i].ok

\* Attempt i is going to undo a or to tell of it, or its deadline has slipped by.
Answers(i, a) ==
    /\ attempt[i].account = a
    /\ \/ Restores(i) /\ attempt[i].phase \in {"calling", "comparing", "undoing"}
       \/ attempt[i].kind = "profile" /\ attempt[i].child \in {"ok", "undoing", "kept"}
       \/ /\ attempt[i].kind = "profile" /\ attempt[i].child = "returned" /\ attempt[i].ok
          /\ attempt[i].phase \in {"calling", "stopping"}
       \/ /\ attempt[i].kind # "relay" /\ attempt[i].phase = "posted"
          /\ attempt[i].outcome = "created"
       \/ SlippedBy(i)

Settles(i, a) == Answers(i, a) \/ <<i, a>> \in removals

Places == \A i \in Attempts : Placed(i)
ProcessOwned == \A a \in Accounts, i \in Attempts : process[a] = i => Owned(a, i)
Traced ==
    \A a \in Accounts : kind[a] = "Configured" =>
        a \in Mine \cup announced \/ \E i \in Attempts : Settles(i, a)

OursInv == KeptInv /\ Places /\ ProcessOwned /\ Traced
OursNext == Places' /\ ProcessOwned' /\ Traced'

LEMMA OursInit == Init => OursInv
  BY KeptInit, SignupAssumption
     DEF Init, OursInv, Places, Placed, ProcessOwned, Traced, Restores, Active, Attempts, Accounts

\* What a step has to keep of every attempt: its place, the core's process for it, and the
\* profiles it settles, with those that come up now.
LEMMA OursFrame ==
    ASSUME OursInv, TypeInv', announced \subseteq announced',
           \A i \in Attempts : Placed(i)',
           \A a \in Accounts, i \in Attempts : process'[a] = i => Owned(a, i)',
           \A a \in Accounts : kind'[a] = "Configured" =>
               \/ kind[a] = "Configured" \/ a \in Mine \cup announced
               \/ \E i \in Attempts : Settles(i, a)',
           \A a \in Accounts, i \in Attempts : kind'[a] = "Configured" /\ Settles(i, a)
               => a \in Mine \cup announced' \/ Settles(i, a)'
    PROVE  OursNext
  <1>1. Places' /\ ProcessOwned'
    BY DEF Places, ProcessOwned
  <1>2. Traced'
    <2> SUFFICES ASSUME NEW a \in Accounts, kind'[a] = "Configured", a \notin Mine \cup announced'
                 PROVE  \E i \in Attempts : Settles(i, a)'
      BY DEF Traced
    <2>1. a \notin Mine \cup announced
      OBVIOUS
    <2>2. CASE kind[a] = "Configured"
      <3>1. PICK i \in Attempts : Settles(i, a)
        BY <2>1, <2>2 DEF OursInv, Traced
      <3>q. QED BY <3>1
    <2>3. CASE kind[a] # "Configured"
      BY <2>1, <2>3
    <2>q. QED BY <2>2, <2>3
  <1>q. QED BY <1>1, <1>2 DEF OursNext

\* An attempt whose record stays keeps its part.
LEMMA SameSettles ==
    ASSUME NEW i \in Attempts, attempt'[i] = attempt[i], announced \subseteq announced',
           removals \subseteq removals'
    PROVE  /\ Placed(i) => Placed(i)'
           /\ \A a \in Accounts : /\ Owned(a, i) => Owned(a, i)'
                                  /\ Settles(i, a) => Settles(i, a)'
  BY DEF Placed, Owned, Answers, Settles, SlippedBy, Restores

\* The steps of one attempt i that leave the core's processes alone and configure nothing.
LEMMA OursOne ==
    ASSUME OursInv, TypeInv', NEW i \in Attempts,
           \A j \in Attempts \ {i} : attempt'[j] = attempt[j],
           UNCHANGED process, \A a \in Accounts : kind'[a] = "Configured" => kind[a] = "Configured",
           announced \subseteq announced', removals \subseteq removals',
           Placed(i)',
           \A a \in Accounts : Owned(a, i) => Owned(a, i)',
           \A a \in Accounts : Answers(i, a) => a \in Mine \cup announced' \/ Settles(i, a)'
    PROVE  OursNext
  <1>1. \A j \in Attempts : Placed(j)'
    BY SameSettles DEF OursInv, Places
  <1>2. \A a \in Accounts, j \in Attempts : process'[a] = j => Owned(a, j)'
    <2>1. ASSUME NEW a \in Accounts, NEW j \in Attempts, process'[a] = j PROVE Owned(a, j)'
      <3>1. Owned(a, j)
        BY <2>1 DEF OursInv, ProcessOwned
      <3>q. QED BY <3>1, SameSettles
    <2>q. QED BY <2>1
  <1>3. \A a \in Accounts, j \in Attempts : Settles(j, a) => a \in Mine \cup announced' \/ Settles(j, a)'
    <2>1. ASSUME NEW a \in Accounts, NEW j \in Attempts, Settles(j, a)
          PROVE  a \in Mine \cup announced' \/ Settles(j, a)'
      <3>1. CASE j = i
        BY <2>1, <3>1 DEF Settles
      <3>2. CASE j # i
        BY <2>1, <3>2, SameSettles
      <3>q. QED BY <3>1, <3>2
    <2>q. QED BY <2>1
  <1>q. QED BY <1>1, <1>2, <1>3, OursFrame

\* The calls carried out for a are cut short: the attempts keep their part, and no other
\* process is touched.
LEMMA CutSettles ==
    ASSUME OursInv, NEW a \in Accounts, NEW i \in Attempts, attempt'[i] = CutShort(a)[i],
           announced' = announced
    PROVE  /\ Placed(i)'
           /\ \A b \in Accounts : Answers(i, b) => Answers(i, b)'
           /\ \A b \in Accounts : b # a /\ process[b] = i => Owned(b, i)'
  <1>0. attempt \in [Attempts -> Attempt] /\ Placed(i)
    BY DEF OursInv, KeptInv, HoldInv, TypeInv, TypeOK, Places
  <1>1. /\ attempt'[i].phase = attempt[i].phase /\ attempt'[i].kind = attempt[i].kind
        /\ attempt'[i].account = attempt[i].account /\ attempt'[i].outcome = attempt[i].outcome
        /\ attempt'[i].ok = attempt[i].ok
        /\ \/ attempt'[i].child = attempt[i].child
           \/ attempt[i].child = "running" /\ attempt'[i].child = "err" /\ process[a] = i
    BY <1>0 DEF CutShort, Attempt
  <1>2. Placed(i)'
    BY <1>0, <1>1 DEF Placed, Restores, Active
  <1>3. \A b \in Accounts : Answers(i, b) => Answers(i, b)'
    BY <1>1 DEF Answers, SlippedBy, Restores
  <1>4. ASSUME NEW b \in Accounts, b # a, process[b] = i PROVE Owned(b, i)'
    <2>1. Owned(b, i)
      BY <1>4 DEF OursInv, ProcessOwned
    <2>2. CASE process[a] = i
      <3>1. Owned(a, i)
        BY <2>2 DEF OursInv, ProcessOwned
      <3>q. QED BY <1>4, <2>1, <3>1 DEF Owned
    <2>3. CASE process[a] # i
      BY <1>1, <2>1, <2>3 DEF Owned, Restores
    <2>q. QED BY <2>2, <2>3
  <1>q. QED BY <1>2, <1>3, <1>4

\* What the app does.
LEMMA OursApp ==
    ASSUME OursInv, TypeInv', NEW k \in Kinds, NEW a \in Accounts \cup {NoAccount},
           Begin(k, a) \/ Cancel
    PROVE  OursNext
  <1>0. attempt \in [Attempts -> Attempt]
    BY DEF OursInv, KeptInv, HoldInv, TypeInv, TypeOK
  <1>1. CASE Begin(k, a)
    <2>1. PICK i \in Attempts : i = begun + 1 /\ i > begun
      BY <1>1, SignupAssumption DEF Begin, OursInv, KeptInv, HoldInv, TypeInv, TypeOK, Attempts
    <2>2. attempt[i].phase = "idle" /\ attempt[i].child = "none" /\ Placed(i)
      BY <2>1 DEF OursInv, KeptInv, HoldInv, ChildComes, Early, Places
    <2>3. UNCHANGED <<kind, process, removals, announced>>
      BY <1>1 DEF Begin, coreVars
    <2>4. /\ \A j \in Attempts \ {i} : attempt'[j] = attempt[j]
          /\ attempt'[i].phase \in {"listing", "starting"} /\ attempt'[i].child = "none"
          /\ attempt'[i].outcome = attempt[i].outcome /\ attempt'[i].ok = attempt[i].ok
          /\ attempt'[i].kind = "relay" => attempt'[i].account \in Mine \cup announced
      <3>1. CASE k # "relay"
        <4>1. attempt' = [attempt EXCEPT ![i].kind = k, ![i].phase = "listing"]
          BY <1>1, <2>1, <3>1 DEF Begin
        <4>q. QED BY <1>0, <2>2, <3>1, <4>1 DEF Attempt
      <3>2. CASE k = "relay"
        <4>1. /\ attempt' = [attempt EXCEPT ![i].kind = k, ![i].phase = "starting", ![i].account = a]
              /\ a \in Mine \cup announced
          BY <1>1, <2>1, <3>2 DEF Begin
        <4>q. QED BY <1>0, <2>2, <4>1 DEF Attempt
      <3>q. QED BY <3>1, <3>2
    <2>5. Placed(i)'
      BY <2>2, <2>3, <2>4 DEF Placed, Active
    <2>6. \A b \in Accounts : ~Owned(b, i) /\ ~Answers(i, b)
      BY <2>2 DEF Owned, Answers, Placed, SlippedBy
    <2>q. QED BY <2>3, <2>4, <2>5, <2>6, OursOne
  <1>2. CASE Cancel
    <2>1. UNCHANGED <<attempt, removals, announced, kind, process>>
      BY <1>2 DEF Cancel, coreVars
    <2>q. QED BY <2>1
          DEF OursInv, OursNext, Places, Placed, ProcessOwned, Owned, Traced, Settles, Answers,
              SlippedBy, Restores
  <1>q. QED BY <1>1, <1>2

\* The account is picked: nothing has been made there by this attempt.
LEMMA OursTake ==
    ASSUME OursInv, TypeInv', NEW i \in Attempts, NEW a \in Accounts, Take(i, a),
           attempt[i].phase \in {"listed", "added"},
           UNCHANGED <<kind, process, removals, announced>>
    PROVE  OursNext
  <1>1. /\ Placed(i) /\ attempt \in [Attempts -> Attempt]
        /\ attempt[i].child = "none" /\ attempt[i].kind \in Kinds \ {"relay"}
    BY DEF OursInv, KeptInv, HoldInv, TypeInv, TypeOK, ChildComes, Places, Early, Picking, Attempt
  <1>2. /\ \A j \in Attempts \ {i} : attempt'[j] = attempt[j]
        /\ attempt'[i].kind = attempt[i].kind /\ attempt'[i].outcome = attempt[i].outcome
        /\ attempt'[i].ok = attempt[i].ok
        /\ attempt'[i].account = a /\ attempt'[i].phase = AfterPick(i)
        /\ attempt'[i].child = IF attempt[i].kind = "file" THEN "sent" ELSE "none"
    BY <1>1 DEF Take, Attempt
  <1>3. /\ AfterPick(i) \in {"naming", "checking", "calling"}
        /\ attempt[i].kind = "file" => AfterPick(i) = "calling"
    BY <1>1 DEF AfterPick, Kinds
  <1>4. attempt[i].outcome # "timedOut"
    BY <1>1 DEF Placed
  <1>5. Placed(i)'
    BY <1>1, <1>2, <1>3, <1>4 DEF Placed, Active
  <1>6. \A b \in Accounts : ~Owned(b, i) /\ ~Answers(i, b)
    BY <1>1, <1>4 DEF Owned, Answers, SlippedBy
  <1>q. QED BY <1>2, <1>5, <1>6, OursOne

\* An attempt before its call, whose call is begun or which comes to nothing.
LEMMA OursEarly ==
    ASSUME OursInv, TypeInv', NEW i \in Attempts,
           attempt[i].phase \in {"listing", "listed", "adding", "starting", "naming", "checking"},
           \A j \in Attempts \ {i} : attempt'[j] = attempt[j],
           attempt'[i].kind = attempt[i].kind, attempt'[i].account = attempt[i].account,
           attempt'[i].phase \in {"listed", "adding", "calling", "posted"},
           \/ attempt'[i].child = attempt[i].child
           \/ /\ attempt'[i].child = "sent" /\ attempt'[i].phase = "calling"
              /\ attempt[i].child = "none" /\ attempt[i].account \in Accounts,
           attempt'[i].ok = attempt[i].ok,
           attempt'[i].outcome = attempt[i].outcome \/ attempt'[i].outcome # "timedOut",
           UNCHANGED <<kind, process, removals, announced>>
    PROVE  OursNext
  <1>1. Placed(i)
    BY DEF OursInv, Places
  <1>2. Placed(i)'
    BY <1>1 DEF Placed, Restores, Active
  <1>3. \A b \in Accounts : ~Answers(i, b)
    BY <1>1 DEF Answers, Placed, SlippedBy, Active
  <1>4. attempt[i].child \notin Active
    BY <1>1 DEF Placed
  <1>5. \A b \in Accounts : ~Owned(b, i)
    BY <1>4 DEF Owned, Active
  <1>q. QED BY <1>2, <1>3, <1>5, OursOne

\* The steps of attempt i before its call.
LEMMA OursPick ==
    ASSUME OursInv, TypeInv', NEW i \in Attempts,
           \/ ListAccounts(i) \/ Pick(i) \/ AddAccount(i) \/ Added(i)
           \/ SetName(i) \/ CheckCode(i) \/ AddTransport(i)
    PROVE  OursNext
  <1>0. /\ attempt \in [Attempts -> Attempt] /\ Placed(i)
        /\ kind \in [Accounts -> {"none", "Unconfigured", "Configured"}]
        /\ attempt[i].phase \in Holding => attempt[i].account \in Accounts
        /\ attempt[i].phase \in {"starting", "naming", "checking"} => attempt[i].child = "none"
    BY DEF OursInv, KeptInv, HoldInv, TypeInv, TypeOK, AccountKnown, Places, Placed, Attempt
  <1>1. CASE ListAccounts(i)
    <2>1. /\ attempt[i].phase = "listing"
          /\ \A j \in Attempts \ {i} : attempt'[j] = attempt[j]
          /\ attempt'[i].kind = attempt[i].kind /\ attempt'[i].account = attempt[i].account
          /\ attempt'[i].ok = attempt[i].ok
          /\ attempt'[i].phase \in {"listed", "posted"} /\ attempt'[i].child = attempt[i].child
          /\ attempt'[i].outcome = attempt[i].outcome \/ attempt'[i].outcome # "timedOut"
          /\ UNCHANGED <<kind, process, removals, announced>>
      BY <1>0, <1>1 DEF ListAccounts, Post, coreVars, Attempt
    <2>q. QED BY <2>1, OursEarly
  <1>2. CASE Pick(i)
    <2>1. attempt[i].phase = "listed" /\ UNCHANGED <<kind, process, removals, announced>>
      BY <1>2 DEF Pick, coreVars
    <2>2. CASE \E a \in attempt[i].free \ busy : Take(i, a)
      <3>1. PICK a \in attempt[i].free : Take(i, a)
        BY <2>2
      <3>2. a \in Accounts
        BY <1>0 DEF Attempt
      <3>q. QED BY <2>1, <3>1, <3>2, OursTake
    <2>3. CASE ~\E a \in attempt[i].free \ busy : Take(i, a)
      <3>1. attempt' = [attempt EXCEPT ![i].phase = "adding", ![i].free = {}]
        BY <1>2, <2>3 DEF Pick
      <3>2. /\ \A j \in Attempts \ {i} : attempt'[j] = attempt[j]
            /\ attempt'[i].kind = attempt[i].kind /\ attempt'[i].account = attempt[i].account
            /\ attempt'[i].ok = attempt[i].ok
            /\ attempt'[i].phase = "adding" /\ attempt'[i].child = attempt[i].child
            /\ attempt'[i].outcome = attempt[i].outcome
        BY <1>0, <3>1 DEF Attempt
      <3>q. QED BY <2>1, <3>2, OursEarly
    <2>q. QED BY <2>2, <2>3
  <1>3. CASE AddAccount(i)
    <2>1. CASE Post(i, "failed") /\ UNCHANGED coreVars
      <3>1. /\ attempt[i].phase = "adding"
            /\ \A j \in Attempts \ {i} : attempt'[j] = attempt[j]
            /\ attempt'[i].kind = attempt[i].kind /\ attempt'[i].account = attempt[i].account
            /\ attempt'[i].ok = attempt[i].ok
            /\ attempt'[i].phase = "posted" /\ attempt'[i].child = attempt[i].child
            /\ attempt'[i].outcome = "failed"
            /\ UNCHANGED <<kind, process, removals, announced>>
        BY <1>0, <1>3, <2>1 DEF AddAccount, Post, coreVars, Attempt
      <3>q. QED BY <3>1, OursEarly
    <2>2. CASE ~(Post(i, "failed") /\ UNCHANGED coreVars)
      <3>1. PICK a \in New \ used :
               /\ kind' = [kind EXCEPT ![a] = "Unconfigured"]
               /\ attempt' = [attempt EXCEPT ![i].phase = "added", ![i].account = a]
               /\ UNCHANGED process
        BY <1>3, <2>2 DEF AddAccount
      <3>2. /\ attempt[i].phase = "adding" /\ attempt[i].child = "none"
            /\ attempt[i].kind # "relay" /\ UNCHANGED <<removals, announced>>
        BY <1>3 DEF AddAccount, OursInv, KeptInv, HoldInv, ChildComes, Early, Picking
      <3>3. /\ \A j \in Attempts \ {i} : attempt'[j] = attempt[j]
            /\ attempt'[i].kind = attempt[i].kind /\ attempt'[i].phase = "added"
            /\ attempt'[i].child = attempt[i].child /\ attempt'[i].outcome = attempt[i].outcome
            /\ attempt'[i].ok = attempt[i].ok
        BY <1>0, <3>1 DEF Attempt
      <3>4. Placed(i)'
        BY <1>0, <3>2, <3>3 DEF Placed, Active
      <3>5. \A b \in Accounts : ~Owned(b, i) /\ ~Answers(i, b)
        BY <1>0, <3>2 DEF Owned, Answers, SlippedBy, Placed
      <3>6. \A b \in Accounts : kind'[b] = "Configured" => kind[b] = "Configured"
        BY <1>0, <3>1
      <3>q. QED BY <3>1, <3>2, <3>3, <3>4, <3>5, <3>6, OursOne
    <2>q. QED BY <2>1, <2>2
  <1>4. CASE Added(i)
    BY <1>0, <1>4, OursTake DEF Added, Holding, coreVars
  <1>5. CASE SetName(i)
    <2>1. /\ attempt[i].phase = "naming"
          /\ \A j \in Attempts \ {i} : attempt'[j] = attempt[j]
          /\ attempt'[i].kind = attempt[i].kind /\ attempt'[i].account = attempt[i].account
          /\ attempt'[i].ok = attempt[i].ok
          /\ attempt'[i].phase \in {"calling", "posted"}
          /\ \/ attempt'[i].child = attempt[i].child
             \/ attempt'[i].child = "sent" /\ attempt'[i].phase = "calling"
          /\ attempt'[i].outcome = attempt[i].outcome \/ attempt'[i].outcome # "timedOut"
          /\ UNCHANGED <<kind, process, removals, announced>>
      BY <1>0, <1>5 DEF SetName, Post, coreVars, Attempt
    <2>q. QED BY <1>0, <2>1, OursEarly DEF Holding
  <1>6. CASE CheckCode(i)
    <2>1. /\ attempt[i].phase = "checking"
          /\ \A j \in Attempts \ {i} : attempt'[j] = attempt[j]
          /\ attempt'[i].kind = attempt[i].kind /\ attempt'[i].account = attempt[i].account
          /\ attempt'[i].ok = attempt[i].ok
          /\ attempt'[i].phase \in {"calling", "posted"}
          /\ \/ attempt'[i].child = attempt[i].child
             \/ attempt'[i].child = "sent" /\ attempt'[i].phase = "calling"
          /\ attempt'[i].outcome = attempt[i].outcome \/ attempt'[i].outcome # "timedOut"
          /\ UNCHANGED <<kind, process, removals, announced>>
      BY <1>0, <1>6 DEF CheckCode, Post, coreVars, Attempt
    <2>q. QED BY <1>0, <2>1, OursEarly DEF Holding
  <1>7. CASE AddTransport(i)
    <2>1. /\ attempt[i].phase = "starting"
          /\ \A j \in Attempts \ {i} : attempt'[j] = attempt[j]
          /\ attempt'[i].kind = attempt[i].kind /\ attempt'[i].account = attempt[i].account
          /\ attempt'[i].ok = attempt[i].ok
          /\ attempt'[i].phase = "calling" /\ attempt'[i].child = "sent"
          /\ attempt'[i].outcome = attempt[i].outcome
          /\ UNCHANGED <<kind, process, removals, announced>>
      BY <1>0, <1>7 DEF AddTransport, coreVars, Attempt
    <2>q. QED BY <1>0, <2>1, OursEarly DEF Holding
  <1>q. QED BY <1>1, <1>2, <1>3, <1>4, <1>5, <1>6, <1>7

\* The steps of attempt i after its call is made, of its deadline and of its callback, that
\* leave the core alone.
LEMMA OursEnd ==
    ASSUME OursInv, TypeInv', NEW i \in Attempts,
           \/ Joined(i) \/ Compare(i) \/ Callback(i) \/ TimesOut(i) \/ CallTimesOut(i)
           \/ LetGo(i) \/ ChildReturns(i)
    PROVE  OursNext
  <1>0. /\ attempt \in [Attempts -> Attempt] /\ Placed(i)
        /\ attempt[i].phase \in Early => attempt[i].child = "none"
    BY DEF OursInv, KeptInv, HoldInv, ChildComes, TypeInv, TypeOK, Places
  <1>1. CASE Joined(i)
    <2>1. /\ attempt[i].phase = "calling" /\ attempt[i].child = "returned"
          /\ \A j \in Attempts \ {i} : attempt'[j] = attempt[j]
          /\ attempt'[i].kind = attempt[i].kind /\ attempt'[i].account = attempt[i].account
          /\ attempt'[i].child = attempt[i].child /\ attempt'[i].ok = attempt[i].ok
          /\ \/ /\ ~Restores(i) /\ attempt'[i].phase = "posted"
                /\ attempt'[i].outcome = IF attempt[i].ok THEN "created" ELSE "failed"
             \/ /\ Restores(i) /\ attempt[i].ok /\ attempt'[i].phase = "comparing"
                /\ attempt'[i].outcome = attempt[i].outcome
             \/ /\ Restores(i) /\ ~attempt[i].ok /\ attempt'[i].phase = "undoing"
                /\ attempt'[i].outcome = "failed"
          /\ UNCHANGED <<kind, process, removals, announced>>
      BY <1>0, <1>1 DEF Joined, Post, Move, coreVars, Attempt
    <2>2. Placed(i)'
      BY <1>0, <2>1 DEF Placed, Restores, Active
    <2>3. \A a \in Accounts : Owned(a, i) => Owned(a, i)'
      BY <2>1 DEF Owned, Restores
    <2>4. attempt[i].outcome # "timedOut"
      BY <1>0, <2>1 DEF Placed
    <2>5. \A a \in Accounts : Answers(i, a) => Settles(i, a)'
      BY <2>1, <2>4 DEF Answers, Settles, SlippedBy, Restores
    <2>q. QED BY <2>1, <2>2, <2>3, <2>5, OursOne
  <1>2. CASE Compare(i)
    <2>1. /\ attempt[i].phase = "comparing"
          /\ \A j \in Attempts \ {i} : attempt'[j] = attempt[j]
          /\ attempt'[i].kind = attempt[i].kind /\ attempt'[i].account = attempt[i].account
          /\ attempt'[i].child = attempt[i].child /\ attempt'[i].ok = attempt[i].ok
          /\ \/ attempt'[i].phase = "posted" /\ attempt'[i].outcome = "created"
             \/ attempt'[i].phase = "undoing" /\ attempt'[i].outcome = "refused"
          /\ UNCHANGED <<kind, process, removals, announced>>
      BY <1>0, <1>2 DEF Compare, Post, coreVars, Attempt
    <2>2. Restores(i)
      BY <1>0, <2>1 DEF Placed
    <2>3. Placed(i)'
      BY <1>0, <2>1, <2>2 DEF Placed, Restores, Active
    <2>4. \A a \in Accounts : Owned(a, i) => Owned(a, i)'
      BY <2>1 DEF Owned, Restores
    <2>5. \A a \in Accounts : Answers(i, a) => Settles(i, a)'
      BY <2>1, <2>2 DEF Answers, Settles, SlippedBy, Restores
    <2>q. QED BY <2>1, <2>3, <2>4, <2>5, OursOne
  <1>3. CASE Callback(i)
    <2>1. /\ attempt[i].phase = "posted" /\ attempt'[i] = [attempt[i] EXCEPT !.phase = "over"]
          /\ \A j \in Attempts \ {i} : attempt'[j] = attempt[j]
          /\ UNCHANGED <<kind, process>>
          /\ announced \subseteq announced' /\ removals \subseteq removals'
          /\ attempt[i].outcome = "created" /\ attempt[i].kind # "relay" =>
                \/ attempt[i].account \in announced'
                \/ <<i, attempt[i].account>> \in removals'
      BY <1>0, <1>3 DEF Callback, Move, coreVars, Attempt
    <2>2. /\ attempt'[i].phase = "over" /\ attempt'[i].kind = attempt[i].kind
          /\ attempt'[i].account = attempt[i].account /\ attempt'[i].child = attempt[i].child
          /\ attempt'[i].ok = attempt[i].ok /\ attempt'[i].outcome = attempt[i].outcome
      BY <1>0, <2>1 DEF Attempt
    <2>3. Placed(i)'
      BY <1>0, <2>1, <2>2 DEF Placed, Restores, Active
    <2>4. \A a \in Accounts : Owned(a, i) => Owned(a, i)'
      BY <2>1, <2>2 DEF Owned, Restores
    <2>5. \A a \in Accounts : Answers(i, a) => a \in Mine \cup announced' \/ Settles(i, a)'
      BY <2>1, <2>2 DEF Answers, Settles, SlippedBy, Restores
    <2>q. QED BY <2>1, <2>3, <2>4, <2>5, OursOne
  <1>4. CASE TimesOut(i)
    <2>1. /\ attempt[i].phase = "calling" /\ attempt[i].child \notin {"sent", "returned"}
          /\ \A j \in Attempts \ {i} : attempt'[j] = attempt[j]
          /\ attempt'[i].kind = attempt[i].kind /\ attempt'[i].account = attempt[i].account
          /\ attempt'[i].child = attempt[i].child /\ attempt'[i].ok = attempt[i].ok
          /\ attempt'[i].phase = "stopping" /\ attempt'[i].outcome = attempt[i].outcome
          /\ UNCHANGED <<kind, process, removals, announced>>
      BY <1>0, <1>4 DEF TimesOut, coreVars, Attempt
    <2>2. ~Restores(i)
      BY <1>4, SignupAssumption DEF TimesOut, Limit
    <2>3. Placed(i)'
      BY <1>0, <2>1, <2>2 DEF Placed, Restores, Active
    <2>4. \A a \in Accounts : Owned(a, i) => Owned(a, i)'
      BY <2>1, <2>2 DEF Owned
    <2>5. \A a \in Accounts : Answers(i, a) => Settles(i, a)'
      BY <2>1, <2>2 DEF Answers, Settles, SlippedBy, Restores
    <2>q. QED BY <2>1, <2>3, <2>4, <2>5, OursOne
  <1>5. CASE CallTimesOut(i)
    <2>1. /\ attempt[i].child = "running" /\ attempt'[i].child = "err"
          /\ \A j \in Attempts \ {i} : attempt'[j] = attempt[j]
          /\ attempt'[i].kind = attempt[i].kind /\ attempt'[i].account = attempt[i].account
          /\ attempt'[i].ok = attempt[i].ok
          /\ attempt'[i].phase = attempt[i].phase /\ attempt'[i].outcome = attempt[i].outcome
          /\ UNCHANGED <<kind, process, removals, announced>>
      BY <1>0, <1>5 DEF CallTimesOut, coreVars, Attempt
    <2>2. Restores(i)
      BY <1>5, SignupAssumption DEF CallTimesOut, Limit
    <2>3. Placed(i)' /\ attempt[i].phase = "calling"
      BY <1>0, <2>1, <2>2 DEF Placed, Restores, Active
    <2>4. \A a \in Accounts : Owned(a, i) => Owned(a, i)'
      BY <2>1, <2>2, <2>3 DEF Owned, Restores
    <2>5. \A a \in Accounts : Answers(i, a) => Settles(i, a)'
      BY <2>1, <2>2 DEF Answers, Settles, SlippedBy, Restores
    <2>q. QED BY <2>1, <2>3, <2>4, <2>5, OursOne
  <1>6. CASE LetGo(i)
    <2>1. /\ \/ attempt[i].child = "ok" /\ attempt'[i].child \in {"undoing", "kept"}
             \/ attempt[i].child = "err" /\ attempt'[i].child = "failed"
          /\ \A j \in Attempts \ {i} : attempt'[j] = attempt[j]
          /\ attempt'[i].kind = attempt[i].kind /\ attempt'[i].account = attempt[i].account
          /\ attempt'[i].ok = attempt[i].ok
          /\ attempt'[i].phase = attempt[i].phase /\ attempt'[i].outcome = attempt[i].outcome
          /\ UNCHANGED <<kind, process, removals, announced>>
      BY <1>0, <1>6 DEF LetGo, coreVars, Attempt
    <2>2. Placed(i)'
      BY <1>0, <2>1 DEF Placed, Restores, Active
    <2>3. \A a \in Accounts : Owned(a, i) => Owned(a, i)'
      BY <2>1 DEF Owned, Restores
    <2>4. \A a \in Accounts : Answers(i, a) => Settles(i, a)'
      BY <2>1 DEF Answers, Settles, SlippedBy, Restores
    <2>q. QED BY <2>1, <2>2, <2>3, <2>4, OursOne
  <1>7. CASE ChildReturns(i)
    <2>1. /\ \/ attempt[i].child = "kept" /\ attempt'[i].ok = TRUE
             \/ attempt[i].child = "failed" /\ attempt'[i].ok = FALSE
          /\ attempt'[i].child = "returned"
          /\ \A j \in Attempts \ {i} : attempt'[j] = attempt[j]
          /\ attempt'[i].kind = attempt[i].kind /\ attempt'[i].account = attempt[i].account
          /\ attempt'[i].phase = attempt[i].phase /\ attempt'[i].outcome = attempt[i].outcome
          /\ UNCHANGED <<kind, process, removals, announced>>
      BY <1>0, <1>7 DEF ChildReturns, coreVars, Attempt
    <2>2. Placed(i)'
      BY <1>0, <2>1 DEF Placed, Restores, Active
    <2>3. \A a \in Accounts : Owned(a, i) => Owned(a, i)'
      BY <2>1 DEF Owned, Restores
    <2>4. \A a \in Accounts : Answers(i, a) => Settles(i, a)'
      BY <1>0, <2>1 DEF Answers, Settles, SlippedBy, Restores, Placed, Active
    <2>q. QED BY <2>1, <2>2, <2>3, <2>4, OursOne
  <1>q. QED BY <1>1, <1>2, <1>3, <1>4, <1>5, <1>6, <1>7

\* An account is stopped or removed, its calls cut short: the attempts but for those in I,
\* which see to themselves, keep their part.
LEMMA OursCut ==
    ASSUME OursInv, TypeInv', NEW a \in Accounts, NEW I \in SUBSET Attempts,
           \A j \in Attempts \ I : attempt'[j] = CutShort(a)[j],
           announced' = announced, process' = [process EXCEPT ![a] = 0],
           \A b \in Accounts : kind'[b] = "Configured" => kind[b] = "Configured",
           \A b \in Accounts, i \in Attempts :
               kind'[b] = "Configured" /\ <<i, b>> \in removals => <<i, b>> \in removals',
           \A i \in I : Placed(i)',
           \A i \in I, b \in Accounts : process'[b] = i => Owned(b, i)',
           \A i \in I, b \in Accounts : kind'[b] = "Configured" /\ Answers(i, b) => Settles(i, b)'
    PROVE  OursNext
  <1>0. process \in [Accounts -> Attempts \cup {0}] /\ 0 \notin Attempts
    BY DEF OursInv, KeptInv, HoldInv, TypeInv, TypeOK, Attempts
  <1>1. ASSUME NEW j \in Attempts \ I
        PROVE  /\ Placed(j)'
               /\ \A b \in Accounts : Answers(j, b) => Answers(j, b)'
               /\ \A b \in Accounts : b # a /\ process[b] = j => Owned(b, j)'
    BY CutSettles
  <1>2. \A j \in Attempts : Placed(j)'
    BY <1>1
  <1>3. \A b \in Accounts, j \in Attempts : process'[b] = j => Owned(b, j)'
    BY <1>0, <1>1
  <1>4. \A b \in Accounts, j \in Attempts : kind'[b] = "Configured" /\ Settles(j, b) => Settles(j, b)'
    <2>1. ASSUME NEW b \in Accounts, NEW j \in Attempts, kind'[b] = "Configured", Settles(j, b)
          PROVE  Settles(j, b)'
      <3>1. CASE Answers(j, b)
        BY <1>1, <2>1, <3>1 DEF Settles
      <3>2. CASE <<j, b>> \in removals
        BY <2>1, <3>2 DEF Settles
      <3>q. QED BY <2>1, <3>1, <3>2 DEF Settles
    <2>q. QED BY <2>1
  <1>q. QED BY <1>2, <1>3, <1>4, OursFrame

\* The one that sees to itself is attempt i, whose process, if it has one, is a's.
LEMMA OursCutOne ==
    ASSUME OursInv, TypeInv', NEW a \in Accounts, NEW i \in Attempts,
           \A j \in Attempts \ {i} : attempt'[j] = CutShort(a)[j],
           UNCHANGED <<announced, removals>>, process' = [process EXCEPT ![a] = 0],
           \A b \in Accounts : process'[b] # i,
           Placed(i)',
           \A b \in Accounts : kind'[b] = "Configured" =>
               kind[b] = "Configured" /\ (Answers(i, b) => Settles(i, b)')
    PROVE  OursNext
  <1>1. /\ {i} \in SUBSET Attempts
        /\ \A k \in {i} : Placed(k)'
        /\ \A k \in {i}, b \in Accounts : process'[b] = k => Owned(b, k)'
        /\ \A k \in {i}, b \in Accounts :
              kind'[b] = "Configured" /\ Answers(k, b) => Settles(k, b)'
    OBVIOUS
  <1>q. QED BY <1>1, OursCut

\* The steps of attempt i and of its child that undo an account or stop its process.
LEMMA OursUndo ==
    ASSUME OursInv, TypeInv', NEW i \in Attempts, Undo(i) \/ StopOwn(i) \/ ChildUndoes(i)
    PROVE  OursNext
  <1>0. /\ attempt \in [Attempts -> Attempt] /\ Placed(i)
        /\ kind \in [Accounts -> {"none", "Unconfigured", "Configured"}]
        /\ process \in [Accounts -> Attempts \cup {0}] /\ 0 \notin Attempts
        /\ attempt[i].phase \in Holding => attempt[i].account \in Accounts
    BY DEF OursInv, KeptInv, HoldInv, TypeInv, TypeOK, AccountKnown, Places, Attempts
  <1>1. PICK a \in Accounts : a = attempt[i].account
    BY <1>0 DEF Undo, StopOwn, ChildUndoes, Holding, Placed
  <1>b. CutShort(a)[i].ok = attempt[i].ok
    BY <1>0 DEF CutShort, Attempt
  <1>2. /\ CutShort(a) \in [Attempts -> Attempt]
        /\ CutShort(a)[i].phase = attempt[i].phase /\ CutShort(a)[i].kind = attempt[i].kind
        /\ CutShort(a)[i].account = a /\ CutShort(a)[i].outcome = attempt[i].outcome
        /\ CutShort(a)[i].ok = attempt[i].ok
        /\ \/ CutShort(a)[i].child = attempt[i].child
           \/ attempt[i].child = "running" /\ CutShort(a)[i].child = "err"
    BY <1>0, <1>1, <1>b, CutShortType
  <1>3. process' = [process EXCEPT ![a] = 0] /\ UNCHANGED <<announced, removals>>
    BY <1>1 DEF Undo, StopOwn, ChildUndoes, Removed
  <1>4. \A b \in Accounts : process'[b] # i
    <2>1. ASSUME NEW b \in Accounts, process[b] = i PROVE b = a
      BY <1>1, <2>1 DEF OursInv, ProcessOwned, Owned
    <2>q. QED BY <1>0, <1>3, <2>1
  <1>5. CASE Undo(i)
    <2>1. /\ attempt[i].phase = "undoing"
          /\ attempt' = [CutShort(a) EXCEPT ![i].phase = "posted"]
          /\ kind' = [kind EXCEPT ![a] = "none"]
      BY <1>1, <1>5 DEF Undo, Removed
    <2>2. /\ \A j \in Attempts \ {i} : attempt'[j] = CutShort(a)[j]
          /\ attempt'[i].phase = "posted" /\ attempt'[i].kind = attempt[i].kind
          /\ attempt'[i].account = a /\ attempt'[i].outcome = attempt[i].outcome
          /\ attempt'[i].ok = attempt[i].ok /\ attempt'[i].child = CutShort(a)[i].child
      BY <1>2, <2>1 DEF Attempt
    <2>3. Placed(i)'
      BY <1>0, <1>1, <1>2, <1>3, <2>1, <2>2 DEF Placed, Restores, Active
    <2>4. \A b \in Accounts : kind'[b] = "Configured" => kind[b] = "Configured" /\ ~Answers(i, b)
      BY <1>0, <1>1, <2>1 DEF Answers
    <2>q. QED BY <1>0, <1>3, <1>4, <2>2, <2>3, <2>4, OursCutOne
  <1>6. CASE StopOwn(i)
    <2>1. /\ attempt[i].phase = "stopping" /\ ~Restores(i)
          /\ attempt' = [CutShort(a) EXCEPT ![i].phase = "posted", ![i].outcome = "timedOut"]
          /\ UNCHANGED kind
      BY <1>0, <1>1, <1>6 DEF StopOwn, Placed
    <2>2. /\ \A j \in Attempts \ {i} : attempt'[j] = CutShort(a)[j]
          /\ attempt'[i].phase = "posted" /\ attempt'[i].kind = attempt[i].kind
          /\ attempt'[i].account = a /\ attempt'[i].outcome = "timedOut"
          /\ attempt'[i].ok = attempt[i].ok /\ attempt'[i].child = CutShort(a)[i].child
      BY <1>2, <2>1 DEF Attempt
    <2>3. Placed(i)'
      BY <1>0, <1>1, <1>2, <1>3, <2>1, <2>2 DEF Placed, Restores, Active
    <2>4. \A b \in Accounts : Answers(i, b) => Settles(i, b)'
      BY <1>1, <1>2, <2>1, <2>2 DEF Answers, Settles, SlippedBy, Restores
    <2>q. QED BY <1>0, <1>3, <1>4, <2>1, <2>2, <2>3, <2>4, OursCutOne
  <1>7. CASE ChildUndoes(i)
    <2>1. /\ attempt[i].child = "undoing"
          /\ attempt' = [CutShort(a) EXCEPT ![i].child = "returned"]
          /\ kind' = [kind EXCEPT ![a] = "none"]
      BY <1>1, <1>7 DEF ChildUndoes, Removed
    <2>2. /\ \A j \in Attempts \ {i} : attempt'[j] = CutShort(a)[j]
          /\ attempt'[i].phase = attempt[i].phase /\ attempt'[i].kind = attempt[i].kind
          /\ attempt'[i].account = a /\ attempt'[i].outcome = attempt[i].outcome
          /\ attempt'[i].ok = attempt[i].ok /\ attempt'[i].child = "returned"
      BY <1>2, <2>1 DEF Attempt
    <2>3. Placed(i)'
      BY <1>0, <1>1, <1>2, <1>3, <2>1, <2>2 DEF Placed, Restores, Active
    <2>4. \A b \in Accounts : kind'[b] = "Configured" => kind[b] = "Configured" /\ ~Answers(i, b)
      BY <1>0, <1>1, <2>1 DEF Answers
    <2>q. QED BY <1>0, <1>3, <1>4, <2>2, <2>3, <2>4, OursCutOne
  <1>q. QED BY <1>5, <1>6, <1>7

\* What the core does, and what reaches it late.
LEMMA OursCore ==
    ASSUME OursInv, TypeInv',
           \/ \E i \in Attempts : CoreTakesUp(i)
           \/ \E a \in Accounts, ok \in BOOLEAN : CoreEnds(a, ok)
           \/ \E s \in stops : StopLands(s)
           \/ \E r \in removals : RemovalLands(r)
    PROVE  OursNext
  <1>0. /\ attempt \in [Attempts -> Attempt] /\ Places
        /\ kind \in [Accounts -> {"none", "Unconfigured", "Configured"}]
        /\ process \in [Accounts -> Attempts \cup {0}] /\ 0 \notin Attempts
        /\ stops \subseteq Attempts \X Accounts /\ removals \subseteq Attempts \X Accounts
    BY DEF OursInv, KeptInv, HoldInv, TypeInv, TypeOK, Attempts
  <1>1. ASSUME NEW i \in Attempts, CoreTakesUp(i) PROVE OursNext
    <2>1. /\ attempt[i].child = "sent" /\ attempt'[i].child \in {"running", "err"}
          /\ \A j \in Attempts \ {i} : attempt'[j] = attempt[j]
          /\ attempt'[i].kind = attempt[i].kind /\ attempt'[i].account = attempt[i].account
          /\ attempt'[i].phase = attempt[i].phase /\ attempt'[i].outcome = attempt[i].outcome
          /\ attempt'[i].ok = attempt[i].ok
          /\ UNCHANGED <<kind, removals, announced>>
          /\ \/ UNCHANGED process
             \/ /\ process' = [process EXCEPT ![attempt[i].account] = i]
                /\ attempt'[i].child = "running"
      BY <1>0, <1>1 DEF CoreTakesUp, Attempt
    <2>2. attempt[i].account \in Accounts /\ Placed(i)
      BY <1>0, <2>1 DEF Places, Placed
    <2>3. \A j \in Attempts : Placed(j)'
      <3>1. Placed(i)'
        BY <2>1, <2>2 DEF Placed, Restores, Active
      <3>2. \A j \in Attempts \ {i} : Placed(j)'
        BY <1>0, <2>1, SameSettles DEF Places
      <3>q. QED BY <3>1, <3>2
    <2>4. \A a \in Accounts : process[a] # i
      BY <2>1 DEF OursInv, ProcessOwned, Owned
    <2>5. ASSUME NEW a \in Accounts, NEW j \in Attempts, process'[a] = j PROVE Owned(a, j)'
      <3>1. CASE j = i
        BY <1>0, <2>1, <2>4, <2>5, <3>1 DEF Owned
      <3>2. CASE j # i
        <4>1. process[a] = j
          BY <1>0, <2>1, <2>2, <2>5, <3>2
        <4>2. Owned(a, j)
          BY <4>1 DEF OursInv, ProcessOwned
        <4>q. QED BY <2>1, <3>2, <4>2, SameSettles
      <3>q. QED BY <3>1, <3>2
    <2>6. ASSUME NEW a \in Accounts, NEW j \in Attempts, Settles(j, a) PROVE Settles(j, a)'
      <3>1. CASE j = i
        BY <2>1, <2>6, <3>1 DEF Settles, Answers, SlippedBy, Restores
      <3>2. CASE j # i
        BY <2>1, <2>6, <3>2, SameSettles
      <3>q. QED BY <3>1, <3>2
    <2>q. QED BY <2>1, <2>3, <2>5, <2>6, OursFrame
  <1>2. ASSUME NEW a \in Accounts, NEW ok \in BOOLEAN, CoreEnds(a, ok) PROVE OursNext
    <2>1. PICK i \in Attempts : process[a] = i
      BY <1>0, <1>2 DEF CoreEnds
    <2>2. /\ process' = [process EXCEPT ![a] = 0] /\ UNCHANGED <<removals, announced>>
          /\ kind' = IF ok THEN [kind EXCEPT ![a] = "Configured"] ELSE kind
          /\ \A j \in Attempts \ {i} : attempt'[j] = attempt[j]
          /\ attempt[i].child # "running" => attempt'[i] = attempt[i]
          /\ attempt[i].child = "running" =>
                attempt'[i] = [attempt[i] EXCEPT !.child = IF ok THEN "ok" ELSE "err"]
      BY <1>2, <2>1 DEF CoreEnds
    <2>3. /\ attempt'[i].kind = attempt[i].kind /\ attempt'[i].account = attempt[i].account
          /\ attempt'[i].phase = attempt[i].phase /\ attempt'[i].outcome = attempt[i].outcome
          /\ attempt'[i].ok = attempt[i].ok
          /\ IF attempt[i].child = "running" THEN attempt'[i].child = IF ok THEN "ok" ELSE "err"
             ELSE attempt'[i].child = attempt[i].child
      BY <1>0, <2>2 DEF Attempt
    <2>4. Owned(a, i) /\ Placed(i)
      BY <1>0, <2>1 DEF OursInv, ProcessOwned, Places
    <2>5. \A j \in Attempts : Placed(j)'
      <3>1. Placed(i)'
        BY <2>2, <2>3, <2>4 DEF Placed, Restores, Active
      <3>2. \A j \in Attempts \ {i} : Placed(j)'
        BY <1>0, <2>2, SameSettles DEF Places
      <3>q. QED BY <3>1, <3>2
    <2>6. ASSUME NEW b \in Accounts, NEW j \in Attempts, process'[b] = j PROVE Owned(b, j)'
      <3>1. process[b] = j /\ b # a
        BY <1>0, <2>2, <2>6
      <3>2. Owned(b, j)
        BY <3>1 DEF OursInv, ProcessOwned
      <3>3. j # i
        BY <2>4, <3>1, <3>2 DEF Owned
      <3>q. QED BY <2>2, <3>2, <3>3, SameSettles
    <2>7. ASSUME NEW b \in Accounts, NEW j \in Attempts, Settles(j, b) PROVE Settles(j, b)'
      <3>1. CASE j = i
        BY <2>2, <2>3, <2>7, <3>1 DEF Settles, Answers, SlippedBy, Restores
      <3>2. CASE j # i
        BY <2>2, <2>7, <3>2, SameSettles
      <3>q. QED BY <3>1, <3>2
    <2>8. ASSUME NEW b \in Accounts, kind'[b] = "Configured"
          PROVE  \/ kind[b] = "Configured" \/ b \in Mine \cup announced
                 \/ \E j \in Attempts : Settles(j, b)'
      <3>1. CASE b # a \/ ~ok
        BY <1>0, <2>2, <2>8, <3>1
      <3>2. CASE b = a /\ ok
        <4>1. attempt[i].kind \in Kinds
          BY <1>0 DEF Attempt
        <4>2. CASE attempt[i].kind = "relay"
          BY <2>4, <3>2, <4>2 DEF Owned, Placed
        <4>3. CASE attempt[i].kind # "relay" /\ attempt[i].child = "running"
          <5>1. Answers(i, a)'
            BY <2>3, <2>4, <3>2, <4>1, <4>3 DEF Owned, Placed, Answers, Restores, Kinds, Active
          <5>q. QED BY <3>2, <5>1 DEF Settles
        <4>4. CASE attempt[i].child # "running"
          <5>1. Answers(i, a)'
            BY <2>3, <2>4, <4>4 DEF Owned, Answers, Restores
          <5>q. QED BY <3>2, <5>1 DEF Settles
        <4>q. QED BY <4>2, <4>3, <4>4
      <3>q. QED BY <3>1, <3>2
    <2>q. QED BY <2>2, <2>5, <2>6, <2>7, <2>8, OursFrame
  <1>3. ASSUME NEW s \in stops, StopLands(s) PROVE OursNext
    <2>1. /\ s[2] \in Accounts /\ {} \in SUBSET Attempts
          /\ attempt' = CutShort(s[2]) /\ process' = [process EXCEPT ![s[2]] = 0]
          /\ UNCHANGED <<kind, removals, announced>>
      BY <1>0, <1>3 DEF StopLands
    <2>q. QED BY <2>1, OursCut
  <1>4. ASSUME NEW r \in removals, RemovalLands(r) PROVE OursNext
    <2>1. /\ r[2] \in Accounts /\ {} \in SUBSET Attempts
          /\ attempt' = CutShort(r[2]) /\ process' = [process EXCEPT ![r[2]] = 0]
          /\ kind' = [kind EXCEPT ![r[2]] = "none"] /\ removals' = removals \ {r}
          /\ UNCHANGED announced
      BY <1>0, <1>4 DEF RemovalLands, Removed
    <2>2. \A b \in Accounts : kind'[b] = "Configured" => kind[b] = "Configured" /\ b # r[2]
      BY <1>0, <2>1
    <2>3. \A b \in Accounts, i \in Attempts :
              kind'[b] = "Configured" /\ <<i, b>> \in removals => <<i, b>> \in removals'
      BY <2>1, <2>2
    <2>q. QED BY <2>1, <2>2, <2>3, OursCut
  <1>q. QED BY <1>1, <1>2, <1>3, <1>4

\* The steps, as the lemmas take them.
LEMMA OursStep == OursInv /\ [Next]_vars => OursInv'
  <1> SUFFICES ASSUME OursInv, [Next]_vars PROVE OursNext
    BY KeptStep DEF OursInv, OursNext
  <1>1. TypeInv'
    BY TypeStep DEF OursInv, KeptInv, HoldInv
  <1>2. CASE UNCHANGED vars
    <2>1. UNCHANGED <<attempt, removals, announced, kind, process>>
      BY <1>2 DEF vars, coreVars
    <2>q. QED BY <2>1
          DEF OursInv, OursNext, Places, Placed, ProcessOwned, Owned, Traced, Settles, Answers,
              SlippedBy, Restores
  <1>3. CASE Runtime
    <2>1. ASSUME NEW i \in Attempts, Task(i) \/ Child(i) \/ TimesOut(i) \/ CallTimesOut(i)
          PROVE  OursNext
      BY <1>1, <2>1, OursPick, OursEnd, OursUndo DEF Task, Child
    <2>q. QED BY <1>1, <1>3, <2>1, OursCore DEF Runtime
  <1>4. CASE \E k \in Kinds, a \in Accounts \cup {NoAccount} : Begin(k, a)
    BY <1>1, <1>4, OursApp
  <1>5. CASE Cancel
    <2>1. "profile" \in Kinds /\ NoAccount \in Accounts \cup {NoAccount}
      BY DEF Kinds
    <2>q. QED BY <1>1, <1>5, <2>1, OursApp
  <1>6. CASE \E a \in Accounts, ok \in BOOLEAN : CoreEnds(a, ok)
    BY <1>1, <1>6, OursCore
  <1>q. QED BY <1>2, <1>3, <1>4, <1>5, <1>6 DEF Next

-----------------------------------------------------------------------------
(* A profile the reader was told of stays, if nobody shares its account *)

\* Attempt i has made its profile on a.
MadeOn(i, a) ==
    /\ attempt[i].account = a /\ attempt[i].kind # "relay"
    /\ \/ attempt[i].child \in {"ok", "kept"}
       \/ attempt[i].child = "returned" /\ attempt[i].ok /\ attempt[i].phase = "calling"
       \/ attempt[i].phase = "comparing"
       \/ attempt[i].phase = "posted" /\ attempt[i].outcome = "created"

\* What attempt i has come to: a profile only at its end, an account of others only by
\* picking one, no account that was not given out, and a removal only when it is done.
Tidy(i) ==
    /\ attempt[i].outcome = "created" => attempt[i].phase \in {"posted", "over"}
    /\ attempt[i].shared => attempt[i].phase \notin Early
    /\ attempt[i].account \in New => attempt[i].account \in used
    /\ attempt[i].free \cap New \subseteq used
    /\ \A a \in Accounts : <<i, a>> \in removals =>
          /\ attempt[i].account = a /\ attempt[i].kind # "relay"
          /\ attempt[i].phase = "over" /\ attempt[i].child \notin Active

\* An account nobody shares has one attempt that has a use for it; that attempt holds it
\* while it works on it; what it has made is there; and once the app was told of it, it
\* stays, and no attempt has a use for it.
Single(a) == \A i, j \in Attempts : HasUse(i, a) /\ HasUse(j, a) => i = j
Held(a)   == \A i \in Attempts : Working(i, a) /\ attempt[i].kind # "relay" => a \in busy
There(a)  == \A i \in Attempts : MadeOn(i, a) => kind[a] = "Configured"
Stays(a)  == a \in announced \ Mine => kind[a] = "Configured" /\ \A i \in Attempts : ~HasUse(i, a)
Unshared(a) == Single(a) /\ Held(a) /\ There(a) /\ Stays(a)

Alone  == \A a \in Accounts : Shared(a) \/ Unshared(a)
AllTidy == \A i \in Attempts : Tidy(i)
\* An id that was not given out is nobody's.
Fresh  == \A a \in New : a \notin used => kind[a] = "none" /\ a \notin announced

AloneInv == OursInv /\ AllTidy /\ Fresh /\ Alone
AloneNext == AllTidy' /\ Fresh' /\ Alone'

LEMMA AloneInit == Init => AloneInv
  <1> SUFFICES ASSUME Init PROVE AloneInv
    OBVIOUS
  <1>1. /\ \A i \in Attempts :
              /\ attempt[i].account = NoAccount /\ attempt[i].outcome = "none"
              /\ ~attempt[i].shared /\ attempt[i].free = {}
        /\ announced = {} /\ removals = {}
        /\ \A a \in New : kind[a] = "none"
    BY SignupAssumption DEF Init, Accounts
  <1>2. NoAccount \notin Accounts /\ New \subseteq Accounts
    BY SignupAssumption DEF Accounts
  <1>3. AllTidy
    BY <1>1, <1>2 DEF AllTidy, Tidy
  <1>4. Fresh
    BY <1>1 DEF Fresh
  <1>5. Alone
    BY <1>1, <1>2 DEF Alone, Unshared, Single, Held, There, Stays, HasUse, Working, MadeOn
  <1>q. QED BY <1>3, <1>4, <1>5, OursInit DEF AloneInv

\* The types, as the steps below need them.
LEMMA AloneTypes ==
    ASSUME AloneInv
    PROVE  /\ attempt \in [Attempts -> Attempt]
           /\ kind \in [Accounts -> {"none", "Unconfigured", "Configured"}]
           /\ process \in [Accounts -> Attempts \cup {0}] /\ 0 \notin Attempts
           /\ stops \subseteq Attempts \X Accounts /\ removals \subseteq Attempts \X Accounts
           /\ announced \subseteq Accounts /\ busy \subseteq Accounts
           /\ \A i \in Attempts : Placed(i) /\ Tidy(i)
           /\ \A i \in Attempts : attempt[i].phase \in Early => attempt[i].child = "none"
           /\ \A i \in Attempts : attempt[i].phase \in Picking => attempt[i].kind # "relay"
  BY DEF AloneInv, AllTidy, OursInv, KeptInv, HoldInv, TypeInv, TypeOK, Places, ChildComes, Attempts

\* An attempt that works on an account, or has made a profile there, has a use for it,
\* unless it adds a relay.
LEMMA UsesIt ==
    ASSUME NEW i \in Attempts, NEW a, attempt[i].kind # "relay"
    PROVE  /\ Working(i, a) => HasUse(i, a)
           /\ MadeOn(i, a) => HasUse(i, a)
  BY DEF Working, MadeOn, HasUse

\* What a step leaves of attempt i: no new use, no new work, and what it makes is there.
Steady(i) ==
    /\ Tidy(i)'
    /\ attempt[i].shared => attempt'[i].shared /\ attempt'[i].account = attempt[i].account
    /\ \A a \in Accounts :
          /\ HasUse(i, a)' => HasUse(i, a)
          /\ Working(i, a)' /\ attempt'[i].kind # "relay" => Working(i, a) /\ attempt[i].kind # "relay"
          /\ MadeOn(i, a)' => MadeOn(i, a) \/ kind'[a] = "Configured"

\* A profile on a that nobody shares is still there, or nobody made it or was told of it.
StillThere(a) ==
    \/ kind[a] # "Configured" \/ kind'[a] = "Configured"
    \/ a \notin announced \ Mine /\ \A i \in Attempts : ~MadeOn(i, a)'

\* What is let go of, nobody who has a use for it goes on working on.
WellReleased(a) == a \in busy /\ a \notin busy' => \A i \in Attempts : HasUse(i, a) => ~Working(i, a)'

LEMMA AloneFrame ==
    ASSUME AloneInv, \A i \in Attempts : Steady(i), Fresh', announced' = announced,
           \A a \in Accounts : ~Shared(a) => StillThere(a) /\ WellReleased(a)
    PROVE  AloneNext
  <1>1. AllTidy'
    BY DEF AllTidy, Steady
  <1>2. ASSUME NEW a \in Accounts, ~Shared(a)' PROVE Unshared(a)'
    <2>1. ~Shared(a)
      BY <1>2 DEF Shared, Steady
    <2>2. Unshared(a) /\ StillThere(a) /\ WellReleased(a)
      BY <2>1 DEF AloneInv, Alone
    <2>3. \A i \in Attempts : HasUse(i, a)' => HasUse(i, a)
      BY DEF Steady
    <2>4. Single(a)'
      BY <2>2, <2>3 DEF Unshared, Single
    <2>5. Held(a)'
      <3> SUFFICES ASSUME NEW i \in Attempts, Working(i, a)', attempt'[i].kind # "relay"
                   PROVE  a \in busy'
        BY DEF Held
      <3>1. Working(i, a) /\ attempt[i].kind # "relay"
        BY DEF Steady
      <3>2. HasUse(i, a) /\ a \in busy
        BY <2>2, <3>1, UsesIt DEF Unshared, Held
      <3>q. QED BY <2>2, <3>2 DEF WellReleased
    <2>6. There(a)'
      <3> SUFFICES ASSUME NEW i \in Attempts, MadeOn(i, a)', kind'[a] # "Configured" PROVE FALSE
        BY DEF There
      <3>1. MadeOn(i, a)
        BY DEF Steady
      <3>q. QED BY <2>2, <3>1 DEF Unshared, There, StillThere
    <2>7. Stays(a)'
      BY <2>2, <2>3 DEF Unshared, Stays, StillThere
    <2>q. QED BY <2>4, <2>5, <2>6, <2>7 DEF Unshared
  <1>3. Alone'
    BY <1>2 DEF Alone
  <1>q. QED BY <1>1, <1>3 DEF AloneNext

\* An attempt whose record stays.
LEMMA SameSteady ==
    ASSUME AloneInv, NEW i \in Attempts, attempt'[i] = attempt[i], used \subseteq used',
           \A a \in Accounts : <<i, a>> \in removals' => <<i, a>> \in removals
    PROVE  Steady(i)
  <1>1. Tidy(i)
    BY DEF AloneInv, AllTidy
  <1>2. Tidy(i)'
    BY <1>1 DEF Tidy
  <1>q. QED BY <1>2 DEF Steady, HasUse, Working, MadeOn

\* An attempt whose call may be cut short.
LEMMA CutSteady ==
    ASSUME AloneInv, NEW b, NEW i \in Attempts, attempt'[i] = CutShort(b)[i], used \subseteq used',
           \A a \in Accounts : <<i, a>> \in removals' => <<i, a>> \in removals
    PROVE  Steady(i) /\ \A a \in Accounts : MadeOn(i, a)' => MadeOn(i, a)
  <1>0. attempt \in [Attempts -> Attempt] /\ Tidy(i)
    BY AloneTypes
  <1>1. CutShort(b)[i].ok = attempt[i].ok
    BY <1>0 DEF CutShort, Attempt
  <1>2. /\ attempt'[i].phase = attempt[i].phase /\ attempt'[i].kind = attempt[i].kind
        /\ attempt'[i].account = attempt[i].account /\ attempt'[i].free = attempt[i].free
        /\ attempt'[i].outcome = attempt[i].outcome
        /\ attempt'[i].ok = attempt[i].ok /\ attempt'[i].shared = attempt[i].shared
        /\ \/ attempt'[i].child = attempt[i].child
           \/ attempt[i].child = "running" /\ attempt'[i].child = "err"
    BY <1>0, <1>1, CutShortType
  <1>3. Tidy(i)'
    BY <1>0, <1>2 DEF Tidy, Active
  <1>4. \A a \in Accounts : MadeOn(i, a)' => MadeOn(i, a)
    BY <1>2 DEF MadeOn
  <1>5. \A a \in Accounts : /\ HasUse(i, a)' => HasUse(i, a)
                            /\ Working(i, a)' => Working(i, a)
    BY <1>2 DEF HasUse, Working
  <1>q. QED BY <1>2, <1>3, <1>4, <1>5 DEF Steady

\* The one attempt that has a use for an account nobody shares, or adds a relay there, lets
\* go of it when it no longer works on it.
LEMMA LetGoWell ==
    ASSUME AloneInv, NEW i \in Attempts, NEW a \in Accounts, attempt[i].account = a,
           HasUse(i, a) \/ attempt[i].kind = "relay", ~Working(i, a)', ~Shared(a)
    PROVE  WellReleased(a)
  <1>0. Unshared(a) /\ Placed(i)
    BY AloneTypes DEF AloneInv, Alone
  <1>1. CASE HasUse(i, a)
    BY <1>0, <1>1 DEF Unshared, Single, WellReleased
  <1>2. CASE attempt[i].kind = "relay"
    <2>1. a \in Mine \cup announced
      BY <1>0, <1>2 DEF Placed
    <2>2. \A j \in Attempts : HasUse(j, a) => a \notin Mine
      BY DEF HasUse, AloneInv, OursInv, KeptInv, UndoesOwn
    <2>3. \A j \in Attempts : ~HasUse(j, a)
      BY <1>0, <2>1, <2>2 DEF Unshared, Stays
    <2>q. QED BY <2>3 DEF WellReleased
  <1>q. QED BY <1>1, <1>2

\* The steps of one attempt that remove no profile and tell of none.
LEMMA AloneOne ==
    ASSUME AloneInv, NEW i \in Attempts,
           \A j \in Attempts \ {i} : attempt'[j] = attempt[j],
           \A j \in Attempts \ {i}, a \in Accounts : <<j, a>> \in removals' => <<j, a>> \in removals,
           Steady(i), used' = used, announced' = announced,
           kind' = kind \/ \E a \in Accounts : kind' = [kind EXCEPT ![a] = "Configured"] /\ kind[a] # "none",
           \/ busy \subseteq busy'
           \/ \E b \in Accounts : /\ busy' = busy \ {b} /\ attempt[i].account = b
                                  /\ HasUse(i, b) \/ attempt[i].kind = "relay"
                                  /\ ~Working(i, b)'
    PROVE  AloneNext
  <1>0. kind \in [Accounts -> {"none", "Unconfigured", "Configured"}]
    BY AloneTypes
  <1>1. \A j \in Attempts : Steady(j)
    BY SameSteady
  <1>2. Fresh'
    <2>1. New \subseteq Accounts
      BY DEF Accounts
    <2>q. QED BY <1>0, <2>1 DEF AloneInv, Fresh
  <1>3. ASSUME NEW a \in Accounts, ~Shared(a) PROVE StillThere(a) /\ WellReleased(a)
    <2>1. StillThere(a)
      BY <1>0 DEF StillThere
    <2>2. CASE busy \subseteq busy'
      BY <2>1, <2>2 DEF WellReleased
    <2>3. ASSUME NEW b \in Accounts, busy' = busy \ {b}, attempt[i].account = b,
                 HasUse(i, b) \/ attempt[i].kind = "relay", ~Working(i, b)'
          PROVE  WellReleased(a)
      <3>1. CASE a = b
        BY <1>3, <2>3, <3>1, LetGoWell
      <3>2. CASE a # b
        BY <2>3, <3>2 DEF WellReleased
      <3>q. QED BY <3>1, <3>2
    <2>q. QED BY <2>1, <2>2, <2>3
  <1>q. QED BY <1>1, <1>2, <1>3, AloneFrame

\* An account is removed by the one attempt that has a use for it.
LEMMA AloneRemoved ==
    ASSUME AloneInv, NEW a \in Accounts, NEW i \in Attempts, HasUse(i, a),
           \A j \in Attempts : Steady(j),
           \A j \in Attempts \ {i} : MadeOn(j, a)' => MadeOn(j, a), ~MadeOn(i, a)',
           kind' = [kind EXCEPT ![a] = "none"], UNCHANGED <<used, announced, busy>>
    PROVE  AloneNext
  <1>0. kind \in [Accounts -> {"none", "Unconfigured", "Configured"}] /\ New \subseteq Accounts
    BY AloneTypes DEF Accounts
  <1>1. Fresh'
    BY <1>0 DEF AloneInv, Fresh
  <1>2. ASSUME NEW b \in Accounts, ~Shared(b) PROVE StillThere(b) /\ WellReleased(b)
    <2>1. WellReleased(b)
      BY DEF WellReleased
    <2>2. CASE b # a
      BY <1>0, <2>1, <2>2 DEF StillThere
    <2>3. CASE b = a
      <3>1. Unshared(a)
        BY <1>2, <2>3 DEF AloneInv, Alone
      <3>2. ASSUME NEW j \in Attempts, MadeOn(j, a)' PROVE FALSE
        <4>1. j # i /\ MadeOn(j, a)
          BY <3>2
        <4>2. HasUse(j, a)
          BY <4>1, UsesIt DEF MadeOn
        <4>q. QED BY <3>1, <4>1, <4>2 DEF Unshared, Single
      <3>3. a \notin announced \ Mine
        BY <3>1 DEF Unshared, Stays
      <3>q. QED BY <2>1, <2>3, <3>2, <3>3 DEF StillThere
    <2>q. QED BY <2>2, <2>3
  <1>q. QED BY <1>1, <1>2, AloneFrame

\* What the app does.
LEMMA AloneApp ==
    ASSUME AloneInv, NEW k \in Kinds, NEW b \in Accounts \cup {NoAccount}, Begin(k, b) \/ Cancel
    PROVE  AloneNext
  <1>0. attempt \in [Attempts -> Attempt] /\ NoAccount \notin Accounts
    BY AloneTypes, SignupAssumption DEF Accounts
  <1>1. CASE Begin(k, b)
    <2>1. PICK i \in Attempts : i = begun + 1 /\ i > begun
      BY <1>1, SignupAssumption DEF Begin, AloneInv, OursInv, KeptInv, HoldInv, TypeInv, TypeOK, Attempts
    <2>2. /\ attempt[i].phase = "idle" /\ attempt[i].child = "none"
          /\ attempt[i].account = NoAccount /\ attempt[i].free = {}
          /\ Tidy(i)
      BY <2>1, AloneTypes DEF AloneInv, OursInv, KeptInv, HoldInv, ChildComes, Early, UndoesOwn
    <2>3. ~attempt[i].shared /\ attempt[i].outcome # "created"
      BY <2>2 DEF Tidy, Early
    <2>4. UNCHANGED <<kind, used, removals, announced>> /\ busy \subseteq busy'
      BY <1>1 DEF Begin, Hold, coreVars
    <2>5. /\ \A j \in Attempts \ {i} : attempt'[j] = attempt[j]
          /\ attempt'[i].phase \in {"listing", "starting"} /\ attempt'[i].child = "none"
          /\ attempt'[i].outcome # "created" /\ ~attempt'[i].shared /\ attempt'[i].free = {}
          /\ \/ attempt'[i].kind # "relay" /\ attempt'[i].account = NoAccount
             \/ attempt'[i].kind = "relay" /\ attempt'[i].account \in Mine \cup announced
      <3>1. CASE k # "relay"
        <4>1. attempt' = [attempt EXCEPT ![i].kind = k, ![i].phase = "listing"]
          BY <1>1, <2>1, <3>1 DEF Begin
        <4>q. QED BY <1>0, <2>2, <2>3, <3>1, <4>1 DEF Attempt
      <3>2. CASE k = "relay"
        <4>1. /\ attempt' = [attempt EXCEPT ![i].kind = k, ![i].phase = "starting", ![i].account = b]
              /\ b \in Mine \cup announced
          BY <1>1, <2>1, <3>2 DEF Begin
        <4>q. QED BY <1>0, <2>2, <2>3, <3>2, <4>1 DEF Attempt
      <3>q. QED BY <3>1, <3>2
    <2>6. attempt'[i].account \in New => attempt'[i].account \in used
      <3>1. NoAccount \notin New /\ Mine \cap New = {}
        BY SignupAssumption DEF Accounts
      <3>q. QED BY <2>5, <3>1 DEF AloneInv, Fresh
    <2>7. Tidy(i)'
      BY <2>2, <2>4, <2>5, <2>6 DEF Tidy
    <2>8. \A a \in Accounts : ~HasUse(i, a)' /\ ~MadeOn(i, a)'
      BY <1>0, <2>5 DEF HasUse, MadeOn
    <2>9. \A a \in Accounts : attempt'[i].kind # "relay" => ~Working(i, a)'
      BY <1>0, <2>5 DEF Working
    <2>10. Steady(i)
      BY <2>3, <2>7, <2>8, <2>9 DEF Steady
    <2>q. QED BY <2>4, <2>5, <2>10, AloneOne
  <1>2. CASE Cancel
    <2>1. UNCHANGED <<attempt, removals, announced, kind, used, busy>>
      BY <1>2 DEF Cancel, coreVars
    <2>2. \A i \in Attempts : Steady(i)
      BY <2>1, SameSteady
    <2>3. Fresh'
      BY <2>1 DEF AloneInv, Fresh
    <2>4. \A a \in Accounts : StillThere(a) /\ WellReleased(a)
      BY <2>1 DEF StillThere, WellReleased
    <2>q. QED BY <2>1, <2>2, <2>3, <2>4, AloneFrame
  <1>q. QED BY <1>1, <1>2

\* The account is picked.  It is shared if it was made already, or if another attempt has a
\* use for it: one that holds it would have kept it from being picked.
LEMMA AloneTake ==
    ASSUME AloneInv, NEW i \in Attempts, NEW a \in Accounts, Take(i, a),
           a \notin busy \/ attempt[i].account = a,
           attempt[i].phase \in {"listed", "added"},
           a \in New => a \in used,
           UNCHANGED <<kind, used, removals, announced>>
    PROVE  AloneNext
  <1>0. /\ attempt \in [Attempts -> Attempt] /\ Tidy(i) /\ Placed(i)
        /\ attempt[i].child = "none" /\ attempt[i].kind \in Kinds \ {"relay"}
    BY AloneTypes DEF Early, Picking, Attempt
  <1>1. /\ \A j \in Attempts \ {i} : attempt'[j] = attempt[j]
        /\ attempt'[i].kind = attempt[i].kind /\ attempt'[i].outcome = attempt[i].outcome
        /\ attempt'[i].account = a /\ attempt'[i].phase = AfterPick(i) /\ attempt'[i].free = {}
        /\ attempt'[i].child \in {"sent", "none"}
        /\ busy' = busy \cup {a}
    BY <1>0 DEF Take, Hold, Attempt
  <1>2. attempt'[i].shared <=> InUse(i, a)
    BY <1>0 DEF Take, Attempt
  <1>3. AfterPick(i) \in {"naming", "checking", "calling"}
    BY DEF AfterPick
  <1>4. ~attempt[i].shared /\ attempt[i].outcome # "created" /\ \A b \in Accounts : <<i, b>> \notin removals
    BY <1>0 DEF Tidy, Early
  <1>5. AllTidy'
    <2>1. Tidy(i)'
      BY <1>1, <1>3, <1>4 DEF Tidy, Early
    <2>2. \A j \in Attempts \ {i} : Tidy(j)'
      BY <1>1, AloneTypes DEF Tidy
    <2>q. QED BY <2>1, <2>2 DEF AllTidy
  <1>6. Fresh'
    BY DEF AloneInv, Fresh
  <1>7. \A j \in Attempts \ {i}, b \in Accounts :
            /\ HasUse(j, b)' <=> HasUse(j, b)
            /\ Working(j, b)' <=> Working(j, b)
            /\ MadeOn(j, b)' <=> MadeOn(j, b)
    BY <1>1 DEF HasUse, Working, MadeOn
  <1>8. \A b \in Accounts : ~MadeOn(i, b)'
    BY <1>1, <1>3 DEF MadeOn
  <1>9. \A b \in Accounts \ {a} : ~HasUse(i, b)' /\ ~Working(i, b)'
    BY <1>1 DEF HasUse, Working
  <1>10. ASSUME NEW b \in Accounts, ~Shared(b)' PROVE Unshared(b)'
    <2>1. ~Shared(b)
      BY <1>1, <1>4, <1>10 DEF Shared
    <2>2. Unshared(b)
      BY <2>1 DEF AloneInv, Alone
    <2>3. There(b)'
      BY <1>7, <1>8, <2>2 DEF Unshared, There
    <2>4. CASE b # a
      <3>1. Single(b)' /\ Held(b)' /\ Stays(b)'
        BY <1>1, <1>7, <1>9, <2>2, <2>4 DEF Unshared, Single, Held, Stays
      <3>q. QED BY <2>3, <3>1 DEF Unshared
    <2>5. CASE b = a
      <3>1. ~InUse(i, a)
        BY <1>1, <1>2, <1>10, <2>5 DEF Shared
      <3>2. ASSUME NEW j \in Attempts \ {i}, HasUse(j, a) PROVE FALSE
        <4>1. CASE a \notin busy
          <5>1. Working(j, a)
            BY <3>1, <3>2 DEF InUse
          <5>q. QED BY <2>2, <2>5, <3>2, <4>1, <5>1 DEF Unshared, Held, HasUse
        <4>2. CASE attempt[i].account = a
          <5>1. HasUse(i, a)
            BY <1>0, <4>2 DEF HasUse
          <5>q. QED BY <2>2, <2>5, <3>2, <5>1 DEF Unshared, Single
        <4>q. QED BY <4>1, <4>2
      <3>3. Single(a)'
        BY <1>7, <3>2 DEF Single
      <3>4. Held(a)'
        BY <1>1 DEF Held
      <3>5. a \notin announced \ Mine
        BY <2>2, <2>5, <3>1 DEF Unshared, Stays, InUse
      <3>q. QED BY <2>3, <2>5, <3>3, <3>4, <3>5 DEF Unshared, Stays
    <2>q. QED BY <2>4, <2>5
  <1>q. QED BY <1>5, <1>6, <1>10 DEF AloneNext, Alone

\* A new account is nobody else's.
LEMMA AloneAdded ==
    ASSUME AloneInv, NEW i \in Attempts, NEW a \in New \ used, attempt[i].phase = "adding",
           used' = used \cup {a}, kind' = [kind EXCEPT ![a] = "Unconfigured"],
           attempt' = [attempt EXCEPT ![i].phase = "added", ![i].account = a],
           UNCHANGED <<busy, removals, announced>>
    PROVE  AloneNext
  <1>0. /\ attempt \in [Attempts -> Attempt] /\ Tidy(i) /\ a \in Accounts /\ New \subseteq Accounts
        /\ kind \in [Accounts -> {"none", "Unconfigured", "Configured"}]
        /\ attempt[i].child = "none" /\ attempt[i].kind # "relay"
    BY AloneTypes DEF Early, Picking, Accounts
  <1>1. /\ \A j \in Attempts \ {i} : attempt'[j] = attempt[j]
        /\ attempt'[i].kind = attempt[i].kind /\ attempt'[i].outcome = attempt[i].outcome
        /\ attempt'[i].account = a /\ attempt'[i].phase = "added"
        /\ attempt'[i].free = attempt[i].free /\ attempt'[i].child = "none"
        /\ attempt'[i].shared = attempt[i].shared
    BY <1>0 DEF Attempt
  <1>2. ~attempt[i].shared /\ attempt[i].outcome # "created" /\ \A b \in Accounts : <<i, b>> \notin removals
    BY <1>0 DEF Tidy, Early
  <1>3. AllTidy'
    <2>1. Tidy(i)'
      BY <1>0, <1>1, <1>2 DEF Tidy
    <2>2. \A j \in Attempts \ {i} : Tidy(j)'
      BY <1>1, AloneTypes DEF Tidy
    <2>q. QED BY <2>1, <2>2 DEF AllTidy
  <1>4. Fresh'
    BY <1>0 DEF AloneInv, Fresh
  <1>5. \A j \in Attempts : attempt[j].account # a
    BY AloneTypes DEF Tidy
  <1>6. /\ \A j \in Attempts \ {i}, b \in Accounts :
              /\ HasUse(j, b)' <=> HasUse(j, b)
              /\ Working(j, b)' <=> Working(j, b)
              /\ MadeOn(j, b)' <=> MadeOn(j, b)
        /\ \A j \in Attempts \ {i} : ~HasUse(j, a) /\ ~Working(j, a) /\ ~MadeOn(j, a)
    BY <1>1, <1>5 DEF HasUse, Working, MadeOn
  <1>7. \A b \in Accounts : ~MadeOn(i, b)' /\ ~Working(i, b)'
    BY <1>1 DEF MadeOn, Working
  <1>8. \A b \in Accounts \ {a} : ~HasUse(i, b)' /\ kind'[b] = kind[b]
    BY <1>0, <1>1 DEF HasUse
  <1>9. ASSUME NEW b \in Accounts, ~Shared(b)' PROVE Unshared(b)'
    <2>1. CASE b = a
      <3>1. Single(a)' /\ Held(a)' /\ There(a)'
        BY <1>0, <1>6, <1>7 DEF Single, Held, There
      <3>2. a \notin announced
        BY DEF AloneInv, Fresh
      <3>q. QED BY <2>1, <3>1, <3>2 DEF Unshared, Stays
    <2>2. CASE b # a
      <3>1. ~Shared(b)
        BY <1>1, <1>2, <1>9 DEF Shared
      <3>2. Unshared(b)
        BY <3>1 DEF AloneInv, Alone
      <3>3. Single(b)' /\ Held(b)' /\ There(b)'
        <4>1. Single(b)'
          BY <1>6, <1>8, <2>2, <3>2 DEF Unshared, Single
        <4>2. Held(b)'
          BY <1>1, <1>6, <1>7, <3>2 DEF Unshared, Held
        <4>3. There(b)'
          BY <1>6, <1>7, <1>8, <2>2, <3>2 DEF Unshared, There
        <4>q. QED BY <4>1, <4>2, <4>3
      <3>4. Stays(b)'
        BY <1>6, <1>8, <2>2, <3>2 DEF Unshared, Stays
      <3>q. QED BY <3>3, <3>4 DEF Unshared
    <2>q. QED BY <2>1, <2>2
  <1>q. QED BY <1>3, <1>4, <1>9 DEF AloneNext, Alone

\* The steps of attempt i before its call.
LEMMA AlonePick ==
    ASSUME AloneInv, NEW i \in Attempts,
           \/ ListAccounts(i) \/ Pick(i) \/ AddAccount(i) \/ Added(i)
           \/ SetName(i) \/ CheckCode(i) \/ AddTransport(i)
    PROVE  AloneNext
  <1>0. /\ attempt \in [Attempts -> Attempt] /\ Placed(i) /\ Tidy(i)
        /\ attempt[i].phase \in Holding => attempt[i].account \in Accounts
        /\ attempt[i].phase \in {"starting", "naming", "checking"} => attempt[i].child = "none"
        /\ attempt[i].phase \in Early => attempt[i].child = "none"
    BY AloneTypes DEF AloneInv, OursInv, KeptInv, HoldInv, TypeInv, AccountKnown, Placed, Attempt
  <1>a. ASSUME attempt[i].phase \in {"listing", "listed", "adding", "starting", "naming", "checking"},
               \A j \in Attempts \ {i} : attempt'[j] = attempt[j],
               attempt'[i].kind = attempt[i].kind, attempt'[i].account = attempt[i].account,
               attempt'[i].shared = attempt[i].shared, attempt'[i].free \cap New \subseteq used,
               attempt'[i].phase \in {"listed", "adding", "calling", "posted"},
               attempt'[i].phase \in Early => attempt[i].phase \in Early,
               \/ attempt'[i].child = attempt[i].child
               \/ attempt'[i].child = "sent" /\ attempt[i].phase \in {"starting", "naming", "checking"},
               attempt'[i].outcome = attempt[i].outcome \/ attempt'[i].outcome \in {"failed", "refused"},
               UNCHANGED <<kind, used, removals, announced>>,
               \/ busy \subseteq busy'
               \/ /\ busy' = busy \ {attempt[i].account}
                  /\ attempt[i].phase \in {"naming", "checking"} /\ attempt'[i].phase = "posted"
                  /\ attempt'[i].child = attempt[i].child
        PROVE  AloneNext
    <2>1. /\ attempt[i].outcome # "created" /\ attempt[i].child \in {"none", "returned"}
          /\ \A b \in Accounts : <<i, b>> \notin removals
      BY <1>0, <1>a DEF Tidy, Early, Placed, Active, Attempt, ChildPhases
    <2>2. Tidy(i)'
      BY <1>0, <1>a, <2>1 DEF Tidy
    <2>3. \A a \in Accounts : /\ HasUse(i, a)' => HasUse(i, a)
                              /\ Working(i, a)' => Working(i, a)
                              /\ ~MadeOn(i, a)'
      <3>1. attempt'[i].child \in {"none", "returned", "sent"}
        BY <1>a, <2>1
      <3>2. attempt'[i].child # "returned" \/ attempt'[i].phase # "calling"
        BY <1>0, <1>a DEF Early
      <3>3. \A a \in Accounts : HasUse(i, a)' => HasUse(i, a)
        BY <1>a DEF HasUse
      <3>4. \A a \in Accounts : Working(i, a)' => Working(i, a)
        BY <1>a DEF Working
      <3>5. \A a \in Accounts : ~MadeOn(i, a)'
        BY <1>a, <2>1, <3>1, <3>2 DEF MadeOn
      <3>q. QED BY <3>3, <3>4, <3>5
    <2>4. Steady(i)
      BY <1>a, <2>2, <2>3 DEF Steady
    <2>5. \A j \in Attempts \ {i}, a \in Accounts : <<j, a>> \in removals' => <<j, a>> \in removals
      BY <1>a
    <2>6. CASE busy \subseteq busy'
      BY <1>a, <2>4, <2>5, <2>6, AloneOne
    <2>7. CASE ~(busy \subseteq busy')
      <3>1. PICK b \in Accounts : b = attempt[i].account
        BY <1>0, <1>a, <2>7 DEF Holding
      <3>2. HasUse(i, b) \/ attempt[i].kind = "relay"
        BY <1>a, <2>7, <3>1 DEF HasUse
      <3>3. ~Working(i, b)'
        BY <1>a, <2>1, <2>7 DEF Working
      <3>4. busy' = busy \ {b}
        BY <1>a, <2>7, <3>1
      <3>q. QED BY <1>a, <2>4, <2>5, <3>1, <3>2, <3>3, <3>4, AloneOne
    <2>q. QED BY <2>6, <2>7
  <1>1. CASE ListAccounts(i)
    <2>1. /\ attempt[i].phase = "listing"
          /\ \A j \in Attempts \ {i} : attempt'[j] = attempt[j]
          /\ attempt'[i].kind = attempt[i].kind /\ attempt'[i].account = attempt[i].account
          /\ attempt'[i].shared = attempt[i].shared
          /\ attempt'[i].free = attempt[i].free \/ attempt'[i].free = {a \in Accounts : kind[a] = "Unconfigured"}
          /\ attempt'[i].phase \in {"listed", "posted"} /\ attempt'[i].child = attempt[i].child
          /\ attempt'[i].outcome = attempt[i].outcome \/ attempt'[i].outcome = "failed"
          /\ UNCHANGED <<kind, used, removals, announced, busy>>
      BY <1>0, <1>1 DEF ListAccounts, Post, shimVars, coreVars, Attempt
    <2>2. attempt'[i].free \cap New \subseteq used
      BY <1>0, <2>1 DEF Tidy, AloneInv, Fresh
    <2>q. QED BY <2>1, <2>2, <1>a DEF Early
  <1>2. CASE Pick(i)
    <2>1. attempt[i].phase = "listed" /\ UNCHANGED <<kind, used, removals, announced>>
      BY <1>2 DEF Pick, coreVars
    <2>2. CASE \E a \in attempt[i].free \ busy : Take(i, a)
      <3>1. PICK a \in attempt[i].free \ busy : Take(i, a)
        BY <2>2
      <3>2. a \in Accounts /\ (a \in New => a \in used)
        BY <1>0 DEF Attempt, Tidy
      <3>q. QED BY <2>1, <3>1, <3>2, AloneTake
    <2>3. CASE ~\E a \in attempt[i].free \ busy : Take(i, a)
      <3>1. attempt' = [attempt EXCEPT ![i].phase = "adding", ![i].free = {}] /\ UNCHANGED busy
        BY <1>2, <2>3 DEF Pick
      <3>2. /\ \A j \in Attempts \ {i} : attempt'[j] = attempt[j]
            /\ attempt'[i].kind = attempt[i].kind /\ attempt'[i].account = attempt[i].account
            /\ attempt'[i].shared = attempt[i].shared /\ attempt'[i].free = {}
            /\ attempt'[i].phase = "adding" /\ attempt'[i].child = attempt[i].child
            /\ attempt'[i].outcome = attempt[i].outcome
        BY <1>0, <3>1 DEF Attempt
      <3>q. QED BY <2>1, <3>1, <3>2, <1>a DEF Early
    <2>q. QED BY <2>2, <2>3
  <1>3. CASE AddAccount(i)
    <2>1. CASE Post(i, "failed") /\ UNCHANGED coreVars
      <3>1. /\ attempt[i].phase = "adding"
            /\ \A j \in Attempts \ {i} : attempt'[j] = attempt[j]
            /\ attempt'[i].kind = attempt[i].kind /\ attempt'[i].account = attempt[i].account
            /\ attempt'[i].shared = attempt[i].shared /\ attempt'[i].free = attempt[i].free
            /\ attempt'[i].phase = "posted" /\ attempt'[i].child = attempt[i].child
            /\ attempt'[i].outcome = "failed"
            /\ UNCHANGED <<kind, used, removals, announced, busy>>
        BY <1>0, <1>3, <2>1 DEF AddAccount, Post, shimVars, coreVars, Attempt
      <3>2. attempt'[i].free \cap New \subseteq used
        BY <1>0, <3>1 DEF Tidy
      <3>q. QED BY <3>1, <3>2, <1>a DEF Early
    <2>2. CASE ~(Post(i, "failed") /\ UNCHANGED coreVars)
      <3>1. PICK a \in New \ used :
               /\ used' = used \cup {a}
               /\ kind' = [kind EXCEPT ![a] = "Unconfigured"]
               /\ attempt' = [attempt EXCEPT ![i].phase = "added", ![i].account = a]
               /\ UNCHANGED process
        BY <1>3, <2>2 DEF AddAccount
      <3>2. attempt[i].phase = "adding" /\ UNCHANGED <<busy, removals, announced>>
        BY <1>3 DEF AddAccount, shimVars
      <3>q. QED BY <3>1, <3>2, AloneAdded
    <2>q. QED BY <2>1, <2>2
  <1>4. CASE Added(i)
    <2>1. PICK a \in Accounts : a = attempt[i].account /\ (a \in New => a \in used)
      BY <1>0, <1>4 DEF Added, Holding, Tidy
    <2>2. /\ attempt[i].phase = "added" /\ Take(i, a)
          /\ UNCHANGED <<kind, used, removals, announced>>
      BY <1>4, <2>1 DEF Added, coreVars
    <2>q. QED BY <2>1, <2>2, AloneTake
  <1>5. CASE SetName(i)
    <2>1. /\ attempt[i].phase = "naming"
          /\ \A j \in Attempts \ {i} : attempt'[j] = attempt[j]
          /\ attempt'[i].kind = attempt[i].kind /\ attempt'[i].account = attempt[i].account
          /\ attempt'[i].shared = attempt[i].shared /\ attempt'[i].free = attempt[i].free
          /\ \/ /\ attempt'[i].phase = "calling" /\ attempt'[i].child = "sent"
                /\ attempt'[i].outcome = attempt[i].outcome /\ UNCHANGED busy
             \/ /\ attempt'[i].phase = "posted" /\ attempt'[i].child = attempt[i].child
                /\ attempt'[i].outcome = "failed" /\ busy' = busy \ {attempt[i].account}
          /\ UNCHANGED <<kind, used, removals, announced>>
      BY <1>0, <1>5 DEF SetName, Post, Release, coreVars, Attempt
    <2>2. attempt'[i].free \cap New \subseteq used
      BY <1>0, <2>1 DEF Tidy
    <2>q. QED BY <2>1, <2>2, <1>a DEF Early
  <1>6. CASE CheckCode(i)
    <2>1. /\ attempt[i].phase = "checking"
          /\ \A j \in Attempts \ {i} : attempt'[j] = attempt[j]
          /\ attempt'[i].kind = attempt[i].kind /\ attempt'[i].account = attempt[i].account
          /\ attempt'[i].shared = attempt[i].shared /\ attempt'[i].free = attempt[i].free
          /\ \/ /\ attempt'[i].phase = "calling" /\ attempt'[i].child = "sent"
                /\ attempt'[i].outcome = attempt[i].outcome /\ UNCHANGED busy
             \/ /\ attempt'[i].phase = "posted" /\ attempt'[i].child = attempt[i].child
                /\ attempt'[i].outcome = "refused" /\ busy' = busy \ {attempt[i].account}
          /\ UNCHANGED <<kind, used, removals, announced>>
      BY <1>0, <1>6 DEF CheckCode, Post, Release, coreVars, Attempt
    <2>2. attempt'[i].free \cap New \subseteq used
      BY <1>0, <2>1 DEF Tidy
    <2>q. QED BY <2>1, <2>2, <1>a DEF Early
  <1>7. CASE AddTransport(i)
    <2>1. /\ attempt[i].phase = "starting"
          /\ \A j \in Attempts \ {i} : attempt'[j] = attempt[j]
          /\ attempt'[i].kind = attempt[i].kind /\ attempt'[i].account = attempt[i].account
          /\ attempt'[i].shared = attempt[i].shared /\ attempt'[i].free = attempt[i].free
          /\ attempt'[i].phase = "calling" /\ attempt'[i].child = "sent"
          /\ attempt'[i].outcome = attempt[i].outcome /\ busy \subseteq busy'
          /\ UNCHANGED <<kind, used, removals, announced>>
      BY <1>0, <1>7 DEF AddTransport, Hold, coreVars, Attempt
    <2>2. attempt'[i].free \cap New \subseteq used
      BY <1>0, <2>1 DEF Tidy
    <2>q. QED BY <2>1, <2>2, <1>a DEF Early
  <1>q. QED BY <1>1, <1>2, <1>3, <1>4, <1>5, <1>6, <1>7

\* The app is told of a profile: its attempt was the one that had a use for its account, and
\* has none any more.
LEMMA AloneTold ==
    ASSUME AloneInv, NEW i \in Attempts, NEW a \in Accounts, attempt[i].account = a,
           attempt[i].phase = "posted", attempt[i].outcome = "created",
           \A j \in Attempts : Steady(j),
           attempt[i].kind # "relay" => \A b \in Accounts : ~HasUse(i, b)',
           announced' = announced \cup {a}, UNCHANGED <<kind, used, busy>>
    PROVE  AloneNext
  <1>0. Tidy(i) /\ Placed(i) /\ \A b \in Accounts : \A j \in Attempts : HasUse(j, b)' => HasUse(j, b)
    BY AloneTypes DEF Steady
  <1>1. AllTidy'
    BY DEF AllTidy, Steady
  <1>2. Fresh'
    BY <1>0 DEF AloneInv, Fresh, Tidy
  <1>3. ASSUME NEW b \in Accounts, ~Shared(b)' PROVE Unshared(b)'
    <2>1. ~Shared(b)
      BY <1>3 DEF Shared, Steady
    <2>2. Unshared(b)
      BY <2>1 DEF AloneInv, Alone
    <2>3. Single(b)'
      BY <1>0, <2>2 DEF Unshared, Single
    <2>4. Held(b)'
      BY <2>2 DEF Unshared, Held, Steady
    <2>5. There(b)'
      BY <2>2 DEF Unshared, There, Steady
    <2>6. Stays(b)'
      <3>1. CASE b \in announced \/ b # a \/ b \in Mine
        BY <1>0, <2>2, <3>1 DEF Unshared, Stays
      <3>2. CASE b \notin announced /\ b = a /\ b \notin Mine
        <4>1. attempt[i].kind # "relay"
          BY <1>0, <3>2 DEF Placed
        <4>2. MadeOn(i, a) /\ HasUse(i, a)
          BY <4>1 DEF MadeOn, HasUse
        <4>3. kind'[a] = "Configured"
          BY <2>2, <3>2, <4>2 DEF Unshared, There
        <4>4. ASSUME NEW j \in Attempts, HasUse(j, a)' PROVE FALSE
          BY <1>0, <2>2, <3>2, <4>1, <4>2, <4>4 DEF Unshared, Single
        <4>q. QED BY <3>2, <4>3, <4>4 DEF Stays
      <3>q. QED BY <3>1, <3>2
    <2>q. QED BY <2>3, <2>4, <2>5, <2>6 DEF Unshared
  <1>q. QED BY <1>1, <1>2, <1>3 DEF AloneNext, Alone

\* The steps of attempt i after its call is made, of its deadline and of its callback, that
\* leave the core alone.
LEMMA AloneEnd ==
    ASSUME AloneInv, NEW i \in Attempts,
           \/ Joined(i) \/ Compare(i) \/ Callback(i) \/ TimesOut(i) \/ CallTimesOut(i)
           \/ LetGo(i) \/ ChildReturns(i)
    PROVE  AloneNext
  <1>0. /\ attempt \in [Attempts -> Attempt] /\ Placed(i) /\ Tidy(i)
        /\ attempt[i].phase \in Early => attempt[i].child = "none"
    BY AloneTypes
  \* A step that leaves the account and what was picked as they are, and holds on.
  <1>a. ASSUME \A j \in Attempts \ {i} : attempt'[j] = attempt[j],
               attempt'[i].kind = attempt[i].kind, attempt'[i].account = attempt[i].account,
               attempt'[i].shared = attempt[i].shared, attempt'[i].free = attempt[i].free,
               attempt[i].phase \notin {"idle", "over"} \/ attempt[i].child \in Active,
               attempt'[i].phase = attempt[i].phase \/ attempt'[i].phase \in {"comparing", "undoing", "posted", "stopping"},
               attempt'[i].child = attempt[i].child \/ attempt'[i].child \notin {"sent", "running", "ok"},
               attempt'[i].child = "err" => attempt[i].child \in {"err", "running"},
               attempt'[i].phase = "over" => attempt[i].phase = "over",
               attempt'[i].outcome = "created" => attempt'[i].phase \in {"posted", "over"},
               \A a \in Accounts : MadeOn(i, a)' => MadeOn(i, a),
               UNCHANGED <<kind, used, removals, announced>>,
               \/ UNCHANGED busy
               \/ /\ attempt[i].child \in {"ok", "err"}
                  /\ attempt'[i].child \in {"kept", "failed", "undoing"}
                  /\ attempt'[i].phase = attempt[i].phase
                  /\ busy' = busy \ {attempt[i].account}
        PROVE  AloneNext
    <2>1. \A b \in Accounts : <<i, b>> \in removals => attempt[i].phase = "over" /\ attempt[i].child \notin Active
      BY <1>0 DEF Tidy
    <2>2. \A b \in Accounts : <<i, b>> \notin removals
      BY <1>a, <2>1
    <2>3. Tidy(i)'
      BY <1>0, <1>a, <2>2 DEF Tidy, Early
    <2>4. \A a \in Accounts : HasUse(i, a)' => HasUse(i, a)
      BY <1>a DEF HasUse, Active
    <2>5. \A a \in Accounts : Working(i, a)' => Working(i, a)
      BY <1>a DEF Working
    <2>6. Steady(i)
      BY <1>a, <2>3, <2>4, <2>5 DEF Steady
    <2>7. \A j \in Attempts \ {i}, a \in Accounts : <<j, a>> \in removals' => <<j, a>> \in removals
      BY <1>a
    <2>8. CASE UNCHANGED busy
      <3>1. busy \subseteq busy'
        BY <2>8
      <3>q. QED BY <1>a, <2>6, <2>7, <3>1, AloneOne
    <2>9. CASE ~UNCHANGED busy
      <3>1. PICK b \in Accounts : b = attempt[i].account
        BY <1>0, <1>a, <2>9 DEF Placed
      <3>2. HasUse(i, b) \/ attempt[i].kind = "relay"
        BY <1>a, <2>9, <3>1 DEF HasUse
      <3>3. ~Working(i, b)'
        BY <1>0, <1>a, <2>9 DEF Working, Placed, Active
      <3>4. busy' = busy \ {b}
        BY <1>a, <2>9, <3>1
      <3>q. QED BY <1>a, <2>6, <2>7, <3>1, <3>2, <3>3, <3>4, AloneOne
    <2>q. QED BY <2>8, <2>9
  <1>1. CASE Joined(i)
    <2>1. /\ attempt[i].phase = "calling" /\ attempt[i].child = "returned"
          /\ \A j \in Attempts \ {i} : attempt'[j] = attempt[j]
          /\ attempt'[i].kind = attempt[i].kind /\ attempt'[i].account = attempt[i].account
          /\ attempt'[i].shared = attempt[i].shared /\ attempt'[i].free = attempt[i].free
          /\ attempt'[i].child = attempt[i].child /\ attempt'[i].ok = attempt[i].ok
          /\ \/ /\ ~Restores(i) /\ attempt'[i].phase = "posted"
                /\ attempt'[i].outcome = IF attempt[i].ok THEN "created" ELSE "failed"
             \/ /\ Restores(i) /\ attempt[i].ok /\ attempt'[i].phase = "comparing"
                /\ attempt'[i].outcome = attempt[i].outcome
             \/ /\ Restores(i) /\ ~attempt[i].ok /\ attempt'[i].phase = "undoing"
                /\ attempt'[i].outcome = "failed"
          /\ UNCHANGED <<kind, used, removals, announced, busy>>
      BY <1>0, <1>1 DEF Joined, Post, Move, shimVars, coreVars, Attempt
    <2>2. attempt[i].outcome # "created"
      BY <1>0, <2>1 DEF Tidy
    <2>3. \A a \in Accounts : MadeOn(i, a)' => MadeOn(i, a)
      BY <2>1, <2>2 DEF MadeOn
    <2>q. QED BY <2>1, <2>2, <2>3, <1>a
  <1>2. CASE Compare(i)
    <2>1. /\ attempt[i].phase = "comparing"
          /\ \A j \in Attempts \ {i} : attempt'[j] = attempt[j]
          /\ attempt'[i].kind = attempt[i].kind /\ attempt'[i].account = attempt[i].account
          /\ attempt'[i].shared = attempt[i].shared /\ attempt'[i].free = attempt[i].free
          /\ attempt'[i].child = attempt[i].child /\ attempt'[i].ok = attempt[i].ok
          /\ \/ attempt'[i].phase = "posted" /\ attempt'[i].outcome = "created"
             \/ attempt'[i].phase = "undoing" /\ attempt'[i].outcome = "refused"
          /\ UNCHANGED <<kind, used, removals, announced, busy>>
      BY <1>0, <1>2 DEF Compare, Post, shimVars, coreVars, Attempt
    <2>2. \A a \in Accounts : MadeOn(i, a)' => MadeOn(i, a)
      BY <2>1 DEF MadeOn
    <2>q. QED BY <2>1, <2>2, <1>a
  <1>3. CASE Callback(i)
    <2> DEFINE a == attempt[i].account
    <2>1. /\ attempt[i].phase = "posted" /\ attempt'[i] = [attempt[i] EXCEPT !.phase = "over"]
          /\ \A j \in Attempts \ {i} : attempt'[j] = attempt[j]
          /\ UNCHANGED <<kind, used, busy>>
          /\ \/ UNCHANGED announced
             \/ /\ attempt[i].outcome = "created" /\ announced' = announced \cup {a}
                /\ UNCHANGED removals
          /\ \/ UNCHANGED removals
             \/ /\ attempt[i].outcome = "created" /\ attempt[i].kind # "relay"
                /\ removals' = removals \cup {<<i, a>>}
      BY <1>0, <1>3 DEF Callback, Move, shimVars, coreVars, Attempt
    <2>2. /\ attempt'[i].phase = "over" /\ attempt'[i].kind = attempt[i].kind
          /\ attempt'[i].account = a /\ attempt'[i].child = attempt[i].child
          /\ attempt'[i].shared = attempt[i].shared /\ attempt'[i].free = attempt[i].free
          /\ attempt'[i].outcome = attempt[i].outcome
      BY <1>0, <2>1 DEF Attempt
    <2>3. \A b \in Accounts : <<i, b>> \notin removals
      BY <1>0, <2>1 DEF Tidy
    <2>4. attempt[i].outcome = "created" => attempt[i].child \notin Active
      BY <1>0, <2>1 DEF Placed
    <2>5. Tidy(i)'
      <3>1. \A b \in Accounts : <<i, b>> \in removals' =>
                attempt[i].outcome = "created" /\ attempt[i].kind # "relay" /\ b = a
        BY <2>1, <2>3
      <3>q. QED BY <1>0, <2>1, <2>2, <2>4, <3>1 DEF Tidy, Early
    <2>6. Steady(i)
      <3>1. \A b \in Accounts : HasUse(i, b)' => HasUse(i, b)
        BY <2>1, <2>2 DEF HasUse
      <3>2. \A b \in Accounts : /\ Working(i, b)' => Working(i, b)
                                /\ MadeOn(i, b)' => MadeOn(i, b)
        BY <2>1, <2>2 DEF Working, MadeOn
      <3>q. QED BY <2>2, <2>5, <3>1, <3>2 DEF Steady
    <2>7. \A j \in Attempts \ {i}, b \in Accounts : <<j, b>> \in removals' => <<j, b>> \in removals
      BY <2>1
    <2>8. CASE UNCHANGED announced
      <3>1. busy \subseteq busy' /\ used' = used /\ kind' = kind
        BY <2>1
      <3>q. QED BY <2>1, <2>6, <2>7, <2>8, <3>1, AloneOne
    <2>9. CASE ~UNCHANGED announced
      <3>1. /\ attempt[i].outcome = "created" /\ announced' = announced \cup {a}
            /\ UNCHANGED removals
        BY <2>1, <2>9
      <3>2. a \in Accounts
        BY <3>1 DEF AloneInv, OursInv, KeptInv, HoldInv, TypeInv, AccountKnown
      <3>3. \A j \in Attempts : Steady(j)
        BY <2>1, <2>6, <2>7, SameSteady
      <3>4. \A b \in Accounts : ~HasUse(i, b)'
        <4>1. attempt[i].child \in {"none", "returned"}
          BY <1>0, <2>4, <3>1 DEF Active, Attempt, ChildPhases
        <4>q. QED BY <2>2, <2>3, <3>1, <4>1 DEF HasUse
      <3>q. QED BY <2>1, <3>1, <3>2, <3>3, <3>4, AloneTold
    <2>q. QED BY <2>8, <2>9
  <1>4. CASE TimesOut(i)
    <2>1. /\ attempt[i].phase = "calling" /\ attempt[i].child # "returned"
          /\ \A j \in Attempts \ {i} : attempt'[j] = attempt[j]
          /\ attempt'[i].kind = attempt[i].kind /\ attempt'[i].account = attempt[i].account
          /\ attempt'[i].shared = attempt[i].shared /\ attempt'[i].free = attempt[i].free
          /\ attempt'[i].child = attempt[i].child /\ attempt'[i].ok = attempt[i].ok
          /\ attempt'[i].phase = "stopping" /\ attempt'[i].outcome = attempt[i].outcome
          /\ UNCHANGED <<kind, used, removals, announced, busy>>
      BY <1>0, <1>4 DEF TimesOut, shimVars, coreVars, Attempt
    <2>2. attempt[i].outcome # "created"
      BY <1>0, <2>1 DEF Tidy
    <2>3. \A a \in Accounts : MadeOn(i, a)' => MadeOn(i, a)
      BY <2>1 DEF MadeOn
    <2>q. QED BY <2>1, <2>2, <2>3, <1>a
  <1>5. CASE CallTimesOut(i)
    <2>1. /\ attempt[i].child = "running" /\ attempt'[i].child = "err"
          /\ \A j \in Attempts \ {i} : attempt'[j] = attempt[j]
          /\ attempt'[i].kind = attempt[i].kind /\ attempt'[i].account = attempt[i].account
          /\ attempt'[i].shared = attempt[i].shared /\ attempt'[i].free = attempt[i].free
          /\ attempt'[i].ok = attempt[i].ok
          /\ attempt'[i].phase = attempt[i].phase /\ attempt'[i].outcome = attempt[i].outcome
          /\ UNCHANGED <<kind, used, removals, announced, busy>>
      BY <1>0, <1>5 DEF CallTimesOut, shimVars, coreVars, Attempt
    <2>2. \A a \in Accounts : MadeOn(i, a)' => MadeOn(i, a)
      BY <2>1 DEF MadeOn
    <2>q. QED BY <1>0, <2>1, <2>2, <1>a DEF Tidy, Active
  <1>6. CASE LetGo(i)
    <2>1. /\ \/ attempt[i].child = "ok" /\ attempt'[i].child \in {"undoing", "kept"}
             \/ attempt[i].child = "err" /\ attempt'[i].child = "failed"
          /\ \A j \in Attempts \ {i} : attempt'[j] = attempt[j]
          /\ attempt'[i].kind = attempt[i].kind /\ attempt'[i].account = attempt[i].account
          /\ attempt'[i].shared = attempt[i].shared /\ attempt'[i].free = attempt[i].free
          /\ attempt'[i].ok = attempt[i].ok
          /\ attempt'[i].phase = attempt[i].phase /\ attempt'[i].outcome = attempt[i].outcome
          /\ busy' = busy \ {attempt[i].account}
          /\ UNCHANGED <<kind, used, removals, announced>>
      BY <1>0, <1>6 DEF LetGo, Release, coreVars, Attempt
    <2>2. \A a \in Accounts : MadeOn(i, a)' => MadeOn(i, a)
      BY <2>1 DEF MadeOn
    <2>q. QED BY <1>0, <2>1, <2>2, <1>a DEF Tidy, Active
  <1>7. CASE ChildReturns(i)
    <2>1. /\ \/ attempt[i].child = "kept" /\ attempt'[i].ok = TRUE
             \/ attempt[i].child = "failed" /\ attempt'[i].ok = FALSE
          /\ attempt'[i].child = "returned"
          /\ \A j \in Attempts \ {i} : attempt'[j] = attempt[j]
          /\ attempt'[i].kind = attempt[i].kind /\ attempt'[i].account = attempt[i].account
          /\ attempt'[i].shared = attempt[i].shared /\ attempt'[i].free = attempt[i].free
          /\ attempt'[i].phase = attempt[i].phase /\ attempt'[i].outcome = attempt[i].outcome
          /\ UNCHANGED <<kind, used, removals, announced, busy>>
      BY <1>0, <1>7 DEF ChildReturns, shimVars, coreVars, Attempt
    <2>2. \A a \in Accounts : MadeOn(i, a)' => MadeOn(i, a)
      BY <2>1 DEF MadeOn
    <2>q. QED BY <1>0, <2>1, <2>2, <1>a DEF Tidy, Active
  <1>q. QED BY <1>1, <1>2, <1>3, <1>4, <1>5, <1>6, <1>7

\* An account's call is cut short and nothing else happens to it.
LEMMA AloneCut ==
    ASSUME AloneInv, \A j \in Attempts : Steady(j), UNCHANGED <<kind, used, announced, busy>>
    PROVE  AloneNext
  <1>1. Fresh'
    BY DEF AloneInv, Fresh
  <1>2. \A a \in Accounts : StillThere(a) /\ WellReleased(a)
    BY DEF StillThere, WellReleased
  <1>q. QED BY <1>1, <1>2, AloneFrame

\* The steps of attempt i and of its child that undo an account or stop its process.
LEMMA AloneUndo ==
    ASSUME AloneInv, NEW i \in Attempts, Undo(i) \/ StopOwn(i) \/ ChildUndoes(i)
    PROVE  AloneNext
  <1>0. /\ attempt \in [Attempts -> Attempt] /\ Placed(i) /\ Tidy(i)
        /\ attempt[i].phase \in Holding => attempt[i].account \in Accounts
        /\ attempt[i].phase \in {"comparing", "undoing"} \/ attempt[i].child = "undoing"
              => attempt[i].kind # "relay"
    BY AloneTypes DEF AloneInv, OursInv, KeptInv, HoldInv, TypeInv, AccountKnown, UndoesOwn
  <1>1. PICK a \in Accounts : a = attempt[i].account
    BY <1>0 DEF Undo, StopOwn, ChildUndoes, Holding, Placed
  <1>b. CutShort(a)[i].ok = attempt[i].ok
    BY <1>0 DEF CutShort, Attempt
  <1>2. /\ CutShort(a) \in [Attempts -> Attempt]
        /\ CutShort(a)[i].phase = attempt[i].phase /\ CutShort(a)[i].kind = attempt[i].kind
        /\ CutShort(a)[i].account = a /\ CutShort(a)[i].outcome = attempt[i].outcome
        /\ CutShort(a)[i].ok = attempt[i].ok /\ CutShort(a)[i].free = attempt[i].free
        /\ CutShort(a)[i].shared = attempt[i].shared
        /\ \/ CutShort(a)[i].child = attempt[i].child
           \/ attempt[i].child = "running" /\ CutShort(a)[i].child = "err"
    BY <1>0, <1>1, <1>b, CutShortType
  <1>3. UNCHANGED <<announced, removals, used, busy>>
    BY DEF Undo, StopOwn, ChildUndoes, Removed, shimVars
  <1>4. \A b \in Accounts : <<i, b>> \notin removals
    BY <1>0 DEF Tidy, Active, Undo, StopOwn, ChildUndoes
  <1>c. ASSUME \A j \in Attempts \ {i} : attempt'[j] = CutShort(a)[j], Steady(i)
        PROVE  /\ \A j \in Attempts : Steady(j)
               /\ \A j \in Attempts \ {i}, b \in Accounts : MadeOn(j, b)' => MadeOn(j, b)
    <2>1. ASSUME NEW j \in Attempts \ {i}
          PROVE  Steady(j) /\ \A b \in Accounts : MadeOn(j, b)' => MadeOn(j, b)
      BY <1>3, <1>c, CutSteady
    <2>q. QED BY <1>c, <2>1
  <1>5. CASE Undo(i)
    <2>1. /\ attempt[i].phase = "undoing"
          /\ attempt' = [CutShort(a) EXCEPT ![i].phase = "posted"]
          /\ kind' = [kind EXCEPT ![a] = "none"]
      BY <1>1, <1>5 DEF Undo, Removed
    <2>2. /\ \A j \in Attempts \ {i} : attempt'[j] = CutShort(a)[j]
          /\ attempt'[i].phase = "posted" /\ attempt'[i].kind = attempt[i].kind
          /\ attempt'[i].account = a /\ attempt'[i].outcome = attempt[i].outcome
          /\ attempt'[i].shared = attempt[i].shared /\ attempt'[i].free = attempt[i].free
          /\ attempt'[i].child = CutShort(a)[i].child
      BY <1>2, <2>1 DEF Attempt
    <2>3. attempt[i].outcome # "created" /\ attempt[i].child \notin Active /\ attempt[i].kind # "relay"
      BY <1>0, <2>1 DEF Tidy, Placed
    <2>4. attempt'[i].child = attempt[i].child
      BY <1>2, <2>2, <2>3 DEF Active
    <2>5. Tidy(i)'
      BY <1>0, <1>1, <1>3, <1>4, <2>2, <2>3 DEF Tidy, Early
    <2>6. \A b \in Accounts : /\ HasUse(i, b)' => HasUse(i, b)
                              /\ ~Working(i, b)' /\ ~MadeOn(i, b)'
      <3>1. \A b \in Accounts : HasUse(i, b)' => HasUse(i, b)
        BY <1>1, <2>1, <2>2 DEF HasUse
      <3>2. \A b \in Accounts : ~Working(i, b)' /\ ~MadeOn(i, b)'
        BY <2>2, <2>3, <2>4 DEF Working, MadeOn, Active
      <3>q. QED BY <3>1, <3>2
    <2>7. Steady(i)
      BY <1>1, <2>2, <2>5, <2>6 DEF Steady
    <2>8. HasUse(i, a)
      BY <1>1, <2>1, <2>3 DEF HasUse
    <2>9. \A j \in Attempts \ {i} : MadeOn(j, a)' => MadeOn(j, a)
      BY <1>c, <2>2, <2>7
    <2>10. ~MadeOn(i, a)' /\ \A j \in Attempts : Steady(j)
      BY <1>c, <2>2, <2>6, <2>7
    <2>q. QED BY <1>3, <2>1, <2>8, <2>9, <2>10, AloneRemoved
  <1>6. CASE StopOwn(i)
    <2>1. /\ attempt[i].phase = "stopping"
          /\ attempt' = [CutShort(a) EXCEPT ![i].phase = "posted", ![i].outcome = "timedOut"]
          /\ UNCHANGED kind
      BY <1>0, <1>1, <1>6 DEF StopOwn, Placed
    <2>2. /\ \A j \in Attempts \ {i} : attempt'[j] = CutShort(a)[j]
          /\ attempt'[i].phase = "posted" /\ attempt'[i].kind = attempt[i].kind
          /\ attempt'[i].account = a /\ attempt'[i].outcome = "timedOut"
          /\ attempt'[i].shared = attempt[i].shared /\ attempt'[i].free = attempt[i].free
          /\ attempt'[i].child = CutShort(a)[i].child
      BY <1>2, <2>1 DEF Attempt
    <2>3. Tidy(i)'
      BY <1>0, <1>1, <1>3, <1>4, <2>2 DEF Tidy, Early
    <2>4. \A b \in Accounts : HasUse(i, b)' => HasUse(i, b)
      BY <1>1, <2>1, <2>2 DEF HasUse
    <2>5. \A b \in Accounts : Working(i, b)' => Working(i, b)
      BY <1>1, <1>2, <2>1, <2>2 DEF Working
    <2>6. \A b \in Accounts : MadeOn(i, b)' => MadeOn(i, b)
      BY <1>1, <1>2, <2>1, <2>2 DEF MadeOn
    <2>7. Steady(i)
      BY <1>1, <2>2, <2>3, <2>4, <2>5, <2>6 DEF Steady
    <2>8. \A j \in Attempts : Steady(j)
      BY <1>c, <2>2, <2>7
    <2>q. QED BY <1>3, <2>1, <2>8, AloneCut
  <1>7. CASE ChildUndoes(i)
    <2>1. /\ attempt[i].child = "undoing"
          /\ attempt' = [CutShort(a) EXCEPT ![i].child = "returned"]
          /\ kind' = [kind EXCEPT ![a] = "none"]
      BY <1>1, <1>7 DEF ChildUndoes, Removed
    <2>2. /\ \A j \in Attempts \ {i} : attempt'[j] = CutShort(a)[j]
          /\ attempt'[i].phase = attempt[i].phase /\ attempt'[i].kind = attempt[i].kind
          /\ attempt'[i].account = a /\ attempt'[i].outcome = attempt[i].outcome
          /\ attempt'[i].shared = attempt[i].shared /\ attempt'[i].free = attempt[i].free
          /\ attempt'[i].ok = attempt[i].ok /\ attempt'[i].child = "returned"
      BY <1>2, <2>1 DEF Attempt
    <2>3. /\ ~attempt[i].ok /\ attempt[i].kind # "relay"
          /\ attempt[i].phase # "comparing"
          /\ attempt[i].phase = "posted" => attempt[i].outcome # "created"
          /\ attempt[i].phase \notin {"starting", "naming", "checking"}
      BY <1>0, <2>1 DEF Placed, Active
    <2>4. Tidy(i)'
      BY <1>0, <1>1, <1>3, <1>4, <2>2 DEF Tidy
    <2>5. \A b \in Accounts : HasUse(i, b)' => HasUse(i, b)
      BY <1>1, <2>1, <2>2 DEF HasUse
    <2>6. \A b \in Accounts : ~Working(i, b)' /\ ~MadeOn(i, b)'
      BY <2>2, <2>3 DEF Working, MadeOn
    <2>7. Steady(i)
      BY <1>1, <2>2, <2>4, <2>5, <2>6 DEF Steady
    <2>8. HasUse(i, a)
      BY <1>1, <2>1, <2>3 DEF HasUse
    <2>9. \A j \in Attempts \ {i} : MadeOn(j, a)' => MadeOn(j, a)
      BY <1>c, <2>2, <2>7
    <2>10. ~MadeOn(i, a)' /\ \A j \in Attempts : Steady(j)
      BY <1>c, <2>2, <2>6, <2>7
    <2>q. QED BY <1>3, <2>1, <2>8, <2>9, <2>10, AloneRemoved
  <1>q. QED BY <1>5, <1>6, <1>7

\* What the core does, and what reaches it late.
LEMMA AloneCore ==
    ASSUME AloneInv,
           \/ \E i \in Attempts : CoreTakesUp(i)
           \/ \E a \in Accounts, ok \in BOOLEAN : CoreEnds(a, ok)
           \/ \E s \in stops : StopLands(s)
           \/ \E r \in removals : RemovalLands(r)
    PROVE  AloneNext
  <1>0. /\ attempt \in [Attempts -> Attempt]
        /\ kind \in [Accounts -> {"none", "Unconfigured", "Configured"}]
        /\ process \in [Accounts -> Attempts \cup {0}] /\ 0 \notin Attempts
        /\ stops \subseteq Attempts \X Accounts /\ removals \subseteq Attempts \X Accounts
        /\ New \subseteq Accounts
    BY AloneTypes DEF Accounts
  <1>1. ASSUME NEW i \in Attempts, CoreTakesUp(i) PROVE AloneNext
    <2>1. /\ attempt[i].child = "sent" /\ attempt'[i].child \in {"running", "err"}
          /\ \A j \in Attempts \ {i} : attempt'[j] = attempt[j]
          /\ attempt'[i].kind = attempt[i].kind /\ attempt'[i].account = attempt[i].account
          /\ attempt'[i].phase = attempt[i].phase /\ attempt'[i].outcome = attempt[i].outcome
          /\ attempt'[i].shared = attempt[i].shared /\ attempt'[i].free = attempt[i].free
          /\ attempt'[i].ok = attempt[i].ok
          /\ UNCHANGED <<kind, used, removals, announced, busy>>
      BY <1>0, <1>1 DEF CoreTakesUp, shimVars, Attempt
    <2>2. Tidy(i) /\ \A b \in Accounts : <<i, b>> \notin removals
      BY <2>1, AloneTypes DEF Tidy, Active
    <2>3. Tidy(i)'
      BY <2>1, <2>2 DEF Tidy
    <2>4. \A b \in Accounts : /\ HasUse(i, b)' => HasUse(i, b)
                              /\ Working(i, b)' => Working(i, b)
                              /\ MadeOn(i, b)' => MadeOn(i, b)
      BY <2>1 DEF HasUse, Working, MadeOn
    <2>5. Steady(i)
      BY <2>1, <2>3, <2>4 DEF Steady
    <2>6. \A j \in Attempts : Steady(j)
      BY <2>1, <2>5, SameSteady
    <2>q. QED BY <2>1, <2>6, AloneCut
  <1>2. ASSUME NEW a \in Accounts, NEW ok \in BOOLEAN, CoreEnds(a, ok) PROVE AloneNext
    <2>1. PICK i \in Attempts : process[a] = i
      BY <1>0, <1>2 DEF CoreEnds
    <2>2. /\ UNCHANGED <<removals, announced, used, busy>>
          /\ kind' = IF ok THEN [kind EXCEPT ![a] = "Configured"] ELSE kind
          /\ \A j \in Attempts \ {i} : attempt'[j] = attempt[j]
          /\ attempt[i].child # "running" => attempt'[i] = attempt[i]
          /\ attempt[i].child = "running" =>
                attempt'[i] = [attempt[i] EXCEPT !.child = IF ok THEN "ok" ELSE "err"]
      BY <1>2, <2>1 DEF CoreEnds, shimVars
    <2>3. /\ attempt'[i].kind = attempt[i].kind /\ attempt'[i].account = attempt[i].account
          /\ attempt'[i].phase = attempt[i].phase /\ attempt'[i].outcome = attempt[i].outcome
          /\ attempt'[i].shared = attempt[i].shared /\ attempt'[i].free = attempt[i].free
          /\ attempt'[i].ok = attempt[i].ok
          /\ IF attempt[i].child = "running" THEN attempt'[i].child = IF ok THEN "ok" ELSE "err"
             ELSE attempt'[i].child = attempt[i].child
      BY <1>0, <2>2 DEF Attempt
    <2>4. attempt[i].account = a
      BY <2>1 DEF AloneInv, OursInv, ProcessOwned, Owned
    <2>5. Tidy(i)'
      <3>1. Tidy(i)
        BY AloneTypes
      <3>q. QED BY <2>2, <2>3, <3>1 DEF Tidy, Active
    <2>6. \A b \in Accounts : /\ HasUse(i, b)' => HasUse(i, b)
                              /\ Working(i, b)' => Working(i, b)
      BY <2>2, <2>3 DEF HasUse, Working
    <2>7. \A b \in Accounts : MadeOn(i, b)' => MadeOn(i, b) \/ kind'[b] = "Configured"
      <3>1. CASE ok
        <4>1. kind'[a] = "Configured"
          BY <1>0, <2>2, <3>1
        <4>2. \A b \in Accounts : MadeOn(i, b)' => b = a
          BY <2>3, <2>4 DEF MadeOn
        <4>q. QED BY <4>1, <4>2
      <3>2. CASE ~ok
        BY <2>3, <3>2 DEF MadeOn
      <3>q. QED BY <3>1, <3>2
    <2>8. Steady(i)
      BY <2>3, <2>5, <2>6, <2>7 DEF Steady
    <2>9. \A j \in Attempts : Steady(j)
      BY <2>2, <2>8, SameSteady
    <2>10. CASE kind[a] # "none" \/ ~ok
      <3>1. kind' = kind \/ \E b \in Accounts : kind' = [kind EXCEPT ![b] = "Configured"] /\ kind[b] # "none"
        BY <2>2, <2>10
      <3>q. QED BY <2>2, <2>8, <3>1, AloneOne
    <2>11. CASE kind[a] = "none" /\ ok
      <3>1. Fresh'
        <4>1. Tidy(i)
          BY AloneTypes
        <4>2. a \in New => a \in used
          BY <2>4, <4>1 DEF Tidy
        <4>q. QED BY <1>0, <2>2, <4>2 DEF AloneInv, Fresh
      <3>2. \A b \in Accounts : StillThere(b) /\ WellReleased(b)
        BY <1>0, <2>2 DEF StillThere, WellReleased
      <3>q. QED BY <2>2, <2>9, <3>1, <3>2, AloneFrame
    <2>q. QED BY <2>10, <2>11
  <1>3. ASSUME NEW s \in stops, StopLands(s) PROVE AloneNext
    <2>1. /\ attempt' = CutShort(s[2]) /\ UNCHANGED <<kind, used, removals, announced, busy>>
      BY <1>3 DEF StopLands, shimVars
    <2>2. \A j \in Attempts : Steady(j)
      BY <2>1, CutSteady
    <2>q. QED BY <2>1, <2>2, AloneCut
  <1>4. ASSUME NEW r \in removals, RemovalLands(r) PROVE AloneNext
    <2>1. PICK i \in Attempts, a \in Accounts : r = <<i, a>>
      BY <1>0
    <2>2. /\ attempt' = CutShort(a) /\ kind' = [kind EXCEPT ![a] = "none"]
          /\ removals' \subseteq removals /\ UNCHANGED <<used, announced, busy>>
      BY <1>4, <2>1 DEF RemovalLands, Removed, shimVars
    <2>3. \A j \in Attempts : Steady(j) /\ \A b \in Accounts : MadeOn(j, b)' => MadeOn(j, b)
      BY <2>2, CutSteady
    <2>4. /\ attempt[i].account = a /\ attempt[i].kind # "relay" /\ <<i, a>> \in removals
          /\ attempt[i].phase = "over" /\ attempt[i].child \notin Active
      BY <2>1, AloneTypes DEF Tidy
    <2>5. HasUse(i, a) /\ ~MadeOn(i, a)
      BY <2>4 DEF HasUse, MadeOn, Active
    <2>6. ~MadeOn(i, a)'
      BY <2>3, <2>5
    <2>q. QED BY <2>2, <2>3, <2>5, <2>6, AloneRemoved
  <1>q. QED BY <1>1, <1>2, <1>3, <1>4

\* The steps, as the lemmas take them.
LEMMA AloneStep == AloneInv /\ [Next]_vars => AloneInv'
  <1> SUFFICES ASSUME AloneInv, [Next]_vars PROVE AloneNext
    BY OursStep DEF AloneInv, AloneNext
  <1>1. CASE UNCHANGED vars
    <2>1. UNCHANGED <<attempt, removals, announced, kind, used, busy>>
      BY <1>1 DEF vars, shimVars, coreVars
    <2>2. \A j \in Attempts : Steady(j)
      BY <2>1, SameSteady
    <2>q. QED BY <2>1, <2>2, AloneCut
  <1>2. CASE Runtime
    <2>1. ASSUME NEW i \in Attempts, Task(i) \/ Child(i) \/ TimesOut(i) \/ CallTimesOut(i)
          PROVE  AloneNext
      BY <2>1, AlonePick, AloneEnd, AloneUndo DEF Task, Child
    <2>q. QED BY <1>2, <2>1, AloneCore DEF Runtime
  <1>3. CASE \E k \in Kinds, a \in Accounts \cup {NoAccount} : Begin(k, a)
    BY <1>3, AloneApp
  <1>4. CASE Cancel
    <2>1. "profile" \in Kinds /\ NoAccount \in Accounts \cup {NoAccount}
      BY DEF Kinds
    <2>q. QED BY <1>4, <2>1, AloneApp
  <1>5. CASE \E a \in Accounts, ok \in BOOLEAN : CoreEnds(a, ok)
    BY <1>5, AloneCore
  <1>q. QED BY <1>1, <1>2, <1>3, <1>4, <1>5 DEF Next

\* A profile the app was told of as made stays, whatever other attempts are cancelled, come
\* late or fail, unless an attempt took its account in one of the three gaps busy leaves (see
\* Shared): in those the code does remove it.  Once all is quiet, a profile the app was not
\* told of is gone, even if two shared its account, unless the deadline fell between the
\* call's success and its return.  None of the profiles there at the start is undone.
THEOREM OursUndone == Spec => []OnlyOursUndone
  <1>1. AloneInv => OnlyOursUndone
    <2> SUFFICES ASSUME AloneInv PROVE OnlyOursUndone
      OBVIOUS
    <2>1. OursInv /\ ReadersKept /\ announced \subseteq Accounts
      BY AloneTypes DEF AloneInv, OursInv, KeptInv
    <2>2. ASSUME NEW a \in announced PROVE kind[a] = "Configured" \/ Shared(a)
      <3>1. CASE a \in Mine
        BY <2>1, <3>1 DEF ReadersKept
      <3>2. CASE a \notin Mine
        BY <2>1, <2>2, <3>2 DEF AloneInv, Alone, Unshared, Stays
      <3>q. QED BY <3>1, <3>2
    <2>3. ASSUME AtRest, NEW a \in Accounts, kind[a] = "Configured", a \notin Mine \cup announced
          PROVE  \E i \in Attempts : attempt[i].account = a /\ SlippedBy(i)
      <3>1. PICK i \in Attempts : Settles(i, a)
        BY <2>1, <2>3 DEF OursInv, Traced
      <3>q. QED BY <2>3, <3>1 DEF AtRest, Settles, Answers
    <2>q. QED BY <2>1, <2>2, <2>3 DEF OnlyOursUndone
  <1>q. QED BY <1>1, AloneInit, AloneStep, PTL DEF Spec
=============================================================================
