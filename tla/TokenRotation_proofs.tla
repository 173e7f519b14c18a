------------------------ MODULE TokenRotation_proofs ------------------------
(***************************************************************************)
(* Proofs about TokenRotation, for any number of concurrent requests and   *)
(* of token pairs: the type invariant, that the refresh token in the file  *)
(* is good unless its renewal is under way or was lost, that a spent token *)
(* is refused, that a sign-out is not undone, and none happens without     *)
(* cause.                                                                  *)
(*                                                                         *)
(* The argument: a pair on its way to the file (FreshPairs) is in the      *)
(* database, in no one else's hands and not what anybody is spending, so   *)
(* that whichever request writes last writes a token that is still good;   *)
(* and a token that was exchanged never comes back to the database (Gone). *)
(***************************************************************************)
EXTENDS TokenRotation, TLAPS

Spending(q) == pc[q] \in {"find", "delete", "generate"}

\* A pair on its way to the file is good, and known to one request only.
FreshPairs ==
  \A q \in Requests : pc[q] = "set" =>
    /\ fresh[q] \in rows /\ fresh[q] # stored
    /\ \A p \in Requests : Spending(p) => spent[p] # fresh[q]
    /\ \A p \in Requests : p # q /\ pc[p] = "set" => fresh[p] # fresh[q]

\* What was exchanged, or is about to be, is not in the database, or its DELETE failed.
Gone ==
  /\ \A q \in Requests : pc[q] = "generate" => spent[q] \notin rows \ kept
  /\ \A n \in Pairs : redeemed[n] > 0 => n \notin rows \ kept /\ n <= issued

\* Nothing that is under way will bring tokens back to who signed out.
SignedOut ==
  ~authed /\ ~crossed =>
    stored = NoPair /\ \A q \in Requests : pc[q] \notin {"find", "delete", "generate", "set"}

IInv == TypeOK /\ FreshPairs /\ StoredIsUsable /\ Gone /\ SignedOut

LEMMA InitIInv == Init => IInv
<1> SUFFICES ASSUME Init PROVE IInv OBVIOUS
<1> USE DEF Init, NoPair, Pairs, Labels
<1>1. TypeOK
  <2>1. issued \in 0..MaxPairs /\ rows \subseteq 1..issued BY TokenAssumption
  <2>2. /\ pc \in [Requests -> Labels] /\ sent \in [Requests -> 0..issued]
        /\ spent \in [Requests -> 0..issued] /\ fresh \in [Requests -> 0..issued]
    OBVIOUS
  <2>3. redeemed \in [Pairs -> Nat] /\ overlapped \in BOOLEAN /\ authed \in BOOLEAN /\ crossed \in BOOLEAN
    OBVIOUS
  <2>4. expired \subseteq Pairs /\ lapsed \subseteq Pairs /\ lost \subseteq Pairs /\ faulted \subseteq Pairs /\ kept \subseteq Pairs OBVIOUS
  <2>5. \A q \in Requests : pc[q] = "idle" OBVIOUS
  <2>6. stored \in 0..issued OBVIOUS
  <2> HIDE DEF Init, Labels, Pairs
  <2> QED BY <2>1, <2>2, <2>3, <2>4, <2>5, <2>6 DEF TypeOK
<1>2. FreshPairs BY DEF FreshPairs
<1>3. StoredIsUsable BY DEF StoredIsUsable
<1>4. Gone BY TokenAssumption DEF Gone
<1>5. SignedOut BY DEF SignedOut
<1> QED BY <1>1, <1>2, <1>3, <1>4, <1>5 DEF IInv

\* A request that ends disturbs nobody else.
LEMMA ReturnKeeps ==
  ASSUME TypeOK, NEW q \in Requests, Return(q)
  PROVE  /\ pc' \in [Requests -> Labels]
         /\ sent' \in [Requests -> 0..issued] /\ spent' \in [Requests -> 0..issued]
         /\ fresh' \in [Requests -> 0..issued]
         /\ pc'[q] = "idle"
         /\ \A p \in Requests : p # q => pc'[p] = pc[p] /\ spent'[p] = spent[p] /\ fresh'[p] = fresh[p]
<1>1. 0 \in 0..issued BY TokenAssumption DEF TypeOK
<1>2. "idle" \in Labels BY DEF Labels
<1> HIDE DEF Labels
<1>3. sent' \in [Requests -> 0..issued] /\ spent' \in [Requests -> 0..issued]
      /\ fresh' \in [Requests -> 0..issued]
  BY <1>1 DEF TypeOK, Return, NoPair
<1>4. pc' \in [Requests -> Labels] BY <1>2 DEF TypeOK, Return, Goto
<1>5. /\ pc'[q] = "idle"
      /\ \A p \in Requests : p # q => pc'[p] = pc[p] /\ spent'[p] = spent[p] /\ fresh'[p] = fresh[p]
  BY DEF TypeOK, Return, Goto
<1> QED BY <1>3, <1>4, <1>5

\* Steps that leave tokens, rows and the file alone.
LEMMA QuietKeeps ==
  ASSUME IInv,
         \/ \E n \in Pairs : AccessExpires(n) \/ RefreshExpires(n)
         \/ SignOut
         \/ \E q \in Requests : ReadAccess(q) \/ Fetch(q) \/ FindRow(q) \/ GenerateFails(q)
                                \/ RefreshThrows(q) \/ Retry(q) \/ ClearToken(q)
  PROVE  IInv'
<1> USE DEF IInv, TypeOK, Labels, Pairs, NoPair, dbVars, reqVars, history, Goto
<1>1. ASSUME NEW n \in Pairs, AccessExpires(n) \/ RefreshExpires(n) PROVE IInv'
  BY <1>1, TokenAssumption DEF AccessExpires, RefreshExpires, FreshPairs, StoredIsUsable, Gone, SignedOut, Spending
<1>2. CASE SignOut
  <2> USE <1>2 DEF SignOut
  <2>1. TypeOK'
    <3>1. crossed' \in BOOLEAN /\ authed' \in BOOLEAN OBVIOUS
    <3>2. stored' \in 0..issued' BY TokenAssumption
    <3> QED BY <3>1, <3>2, TokenAssumption
  <2>2. FreshPairs' /\ StoredIsUsable' /\ Gone'
    BY TokenAssumption DEF FreshPairs, StoredIsUsable, Gone, Spending
  <2>3. SignedOut' BY DEF SignedOut
  <2> QED BY <2>1, <2>2, <2>3
<1>3. ASSUME NEW q \in Requests,
             \/ ReadAccess(q) \/ Fetch(q) \/ FindRow(q) \/ GenerateFails(q) \/ RefreshThrows(q)
             \/ Retry(q) \/ ClearToken(q)
      PROVE  IInv'
  <2>1. CASE ReadAccess(q)
    BY <2>1 DEF ReadAccess, FreshPairs, Spending, StoredIsUsable, Gone, SignedOut
  <2>2. CASE Fetch(q) /\ ~Return(q)
    <3>1. /\ pc' = [pc EXCEPT ![q] = "readRefresh"] /\ pc[q] = "fetch"
          /\ UNCHANGED <<authed, dbVars, expired, lapsed, stored, reqVars, history>>
      BY <2>2 DEF Fetch
    <3> QED BY <3>1 DEF FreshPairs, Spending, StoredIsUsable, Gone, SignedOut
  <2>3. CASE FindRow(q)
    <3>1. spent[q] \in Pairs BY <2>3, TokenAssumption DEF FindRow
    <3>2. TypeOK' BY <2>3, <3>1, TokenAssumption DEF FindRow
    <3>3. FreshPairs' BY <2>3 DEF FindRow, FreshPairs, Spending
    <3>4. StoredIsUsable' BY <2>3 DEF FindRow, StoredIsUsable
    <3>5. Gone' BY <2>3 DEF FindRow, Gone
    <3>6. SignedOut' BY <2>3 DEF FindRow, SignedOut
    <3> QED BY <3>2, <3>3, <3>4, <3>5, <3>6
  <2>4. CASE GenerateFails(q) /\ ~Return(q)
    <3>1. spent[q] \in Pairs BY <2>4, TokenAssumption DEF GenerateFails
    <3>2. /\ pc' = [pc EXCEPT ![q] = "clear"] /\ pc[q] = "generate"
          /\ faulted' = faulted \cup {spent[q]}
          /\ UNCHANGED <<authed, dbVars, expired, lapsed, stored, reqVars, lost, kept, redeemed,
                         overlapped, crossed>>
      BY <2>4 DEF GenerateFails, AnswerLost
    <3>3. TypeOK' BY <3>1, <3>2
    <3>4. FreshPairs' BY <3>2 DEF FreshPairs, Spending
    <3>5. StoredIsUsable' BY <3>2 DEF StoredIsUsable
    <3>6. Gone' BY <3>2 DEF Gone
    <3>7. SignedOut' BY <3>2 DEF SignedOut
    <3> QED BY <3>3, <3>4, <3>5, <3>6, <3>7
  \* The request ends; at most its token is noted as lost, or the file is cleared.
  <2>5. CASE Return(q)
    <3>1. /\ UNCHANGED <<authed, dbVars, expired, lapsed, faulted, kept, redeemed, overlapped, crossed>>
          /\ \/ UNCHANGED <<stored, lost>> /\ pc[q] \in {"fetch", "find", "retry"}
             \/ UNCHANGED stored /\ lost' = lost \cup {spent[q]} /\ pc[q] = "generate"
             \/ UNCHANGED lost /\ stored' = NoPair
      BY <1>3, <2>5
         DEF Return, ReadAccess, Fetch, FindRow, GenerateFails, AnswerLost, RefreshThrows, Retry, ClearToken
    <3>2. pc[q] = "generate" => spent[q] \in Pairs BY TokenAssumption
    <3>3. TypeOK'
      <4>1. stored' \in 0..issued BY <3>1, TokenAssumption
      <4> HIDE DEF Pairs
      <4>2. lost' \subseteq Pairs BY <3>1, <3>2
      <4> QED BY <2>5, <3>1, <4>1, <4>2, ReturnKeeps
    <3>4. FreshPairs'
      <4>1. 0 \notin rows BY TokenAssumption
      <4> HIDE DEF TypeOK
      <4> QED BY <2>5, <3>1, <4>1, ReturnKeeps DEF FreshPairs, Spending
    <3>5. StoredIsUsable' BY <2>5, <3>1, ReturnKeeps DEF StoredIsUsable
    <3>6. Gone' BY <2>5, <3>1, ReturnKeeps DEF Gone
    <3>7. SignedOut' BY <2>5, <3>1, ReturnKeeps DEF SignedOut
    <3> QED BY <3>3, <3>4, <3>5, <3>6, <3>7
  <2> QED
    BY <1>3, <2>1, <2>2, <2>3, <2>4, <2>5 DEF RefreshThrows, Retry, ClearToken
<1> QED BY <1>1, <1>2, <1>3

LEMMA SignInKeeps == ASSUME IInv, SignIn PROVE IInv'
<1> USE DEF IInv, TypeOK, Labels, Pairs, NoPair, reqVars, history, SignIn
<1>1. TypeOK' BY TokenAssumption
<1>2. FreshPairs' BY TokenAssumption DEF FreshPairs, Spending
<1>3. StoredIsUsable' BY DEF StoredIsUsable
<1>4. Gone' BY TokenAssumption DEF Gone
<1>5. SignedOut' BY DEF SignedOut
<1> QED BY <1>1, <1>2, <1>3, <1>4, <1>5

LEMMA ReadRefreshKeeps == ASSUME IInv, NEW q \in Requests, ReadRefresh(q) PROVE IInv'
<1> USE DEF IInv, TypeOK, Labels, Pairs, NoPair, dbVars, Goto, ReadRefresh
<1>1. TypeOK' BY TokenAssumption
<1>2. FreshPairs' BY DEF FreshPairs, Spending
<1>3. StoredIsUsable' BY DEF StoredIsUsable
<1>4. Gone' BY DEF Gone
<1>5. SignedOut' BY DEF SignedOut
<1> QED BY <1>1, <1>2, <1>3, <1>4, <1>5

LEMMA DeleteRowKeeps == ASSUME IInv, NEW q \in Requests, DeleteRow(q) PROVE IInv'
<1> USE DEF IInv, TypeOK, Labels, Pairs, NoPair, reqVars, history, Goto, DeleteRow
<1>a. spent[q] \in Pairs BY TokenAssumption
<1>1. TypeOK'
  <2>1. rows' \subseteq 1..issued OBVIOUS
  <2>2. kept' \subseteq Pairs BY <1>a
  <2> HIDE DEF Pairs
  <2> QED BY <2>1, <2>2
<1>2. FreshPairs' BY DEF FreshPairs, Spending
\* The token in the file is now spent by q, if it was in the database until now.
<1>3. StoredIsUsable' BY DEF StoredIsUsable
<1>4. Gone' BY DEF Gone
<1>5. SignedOut' BY DEF SignedOut
<1> QED BY <1>1, <1>2, <1>3, <1>4, <1>5

LEMMA GenerateKeeps == ASSUME IInv, NEW q \in Requests, Generate(q) PROVE IInv'
<1> USE DEF IInv, TypeOK, Labels, Pairs, NoPair, Goto, Generate, AnswerLost, Return
<1>1. TypeOK'
  <2>1. issued' \in 0..MaxPairs /\ rows' \subseteq 1..issued' BY TokenAssumption
  <2>a. spent[q] \in Pairs BY TokenAssumption
  <2>b. 0..issued \subseteq 0..(issued + 1) /\ issued + 1 \in 0..(issued + 1) BY TokenAssumption
  <2>2. /\ expired' \subseteq Pairs /\ lapsed' \subseteq Pairs /\ lost' \subseteq Pairs
        /\ faulted' \subseteq Pairs /\ kept' \subseteq Pairs
        /\ stored' \in 0..issued'
    BY <2>a, <2>b
  <2>3. /\ pc' \in [Requests -> Labels]
        /\ sent' \in [Requests -> 0..issued'] /\ spent' \in [Requests -> 0..issued']
        /\ fresh' \in [Requests -> 0..issued']
    <3>1. pc' \in [Requests -> Labels] OBVIOUS
    <3>2. sent \in [Requests -> 0..(issued + 1)] /\ spent \in [Requests -> 0..(issued + 1)]
      BY <2>b
    <3>3. fresh \in [Requests -> 0..(issued + 1)] BY <2>b
    <3>4. sent \in [Requests -> 0..(issued + 1)] BY <2>b
    <3>5. 0 \in 0..(issued + 1) BY <2>b
    <3>6. \/ /\ fresh' = [fresh EXCEPT ![q] = issued + 1]
             /\ UNCHANGED <<sent, spent>>
          \/ /\ fresh' = [fresh EXCEPT ![q] = 0] /\ spent' = [spent EXCEPT ![q] = 0]
             /\ sent' = [sent EXCEPT ![q] = 0]
      OBVIOUS
    <3>7. issued' = issued + 1 OBVIOUS
    <3> HIDE DEF IInv, TypeOK, Generate, AnswerLost, Return
    <3>8. fresh' \in [Requests -> 0..(issued + 1)] BY <3>3, <3>5, <3>6, <2>b
    <3>9. sent' \in [Requests -> 0..(issued + 1)] /\ spent' \in [Requests -> 0..(issued + 1)]
      BY <3>2, <3>4, <3>5, <3>6
    <3> QED BY <3>1, <3>7, <3>8, <3>9
  <2>4. \A p \in Requests : pc'[p] \in {"find", "delete", "generate"} => spent'[p] # NoPair
    OBVIOUS
  <2>5. /\ redeemed' \in [Pairs -> Nat] /\ overlapped' \in BOOLEAN
        /\ authed' \in BOOLEAN /\ crossed' \in BOOLEAN
    BY TokenAssumption, SMTT(40)
  <2> QED BY <2>1, <2>2, <2>3, <2>4, <2>5
\* The new pair is larger than any that anybody holds.
<1>2. FreshPairs'
  <2>1. issued + 1 \notin rows /\ issued + 1 # stored BY TokenAssumption
  <2>2. \A p \in Requests : spent[p] # issued + 1 /\ fresh[p] # issued + 1 BY TokenAssumption
  <2>3. \A p \in Requests :
          p # q => pc'[p] = pc[p] /\ fresh'[p] = fresh[p] /\ spent'[p] = spent[p]
    OBVIOUS
  <2>4. pc'[q] = "set" => fresh'[q] = issued + 1 OBVIOUS
  <2>5. pc'[q] \notin {"find", "delete", "generate"} OBVIOUS
  <2>6. rows \subseteq rows' /\ stored' = stored BY <2>1
  <2>7. FreshPairs BY DEF IInv
  <2>9. fresh'[q] \in rows' \/ pc'[q] # "set" BY <2>4
  <2> HIDE DEF IInv, TypeOK, Generate, AnswerLost, Return, Labels, Pairs
  <2> QED BY <2>1, <2>2, <2>3, <2>4, <2>5, <2>6, <2>7, <2>9 DEF FreshPairs, Spending
<1>3. StoredIsUsable' BY DEF StoredIsUsable
<1>4. Gone'
  <2>1. \A p \in Requests : pc'[p] = "generate" => p # q /\ pc[p] = "generate" OBVIOUS
  <2>2. \A p \in Requests : spent[p] # issued + 1 BY TokenAssumption
  <2>3. spent[q] \in Pairs /\ spent[q] \notin rows \ kept BY TokenAssumption DEF Gone
  <2>4. \A n \in Pairs : redeemed'[n] > 0 => n = spent[q] \/ redeemed[n] > 0 BY <2>3
  <2>5. \A n \in Pairs : redeemed'[n] > 0 => n \notin rows' \ kept' /\ n <= issued'
    BY <2>2, <2>3, <2>4, TokenAssumption DEF Gone
  <2> QED BY <2>1, <2>2, <2>5 DEF Gone
<1>5. SignedOut' BY DEF SignedOut
<1> QED BY <1>1, <1>2, <1>3, <1>4, <1>5

LEMMA SetTokenKeeps == ASSUME IInv, NEW q \in Requests, SetToken(q) PROVE IInv'
<1> USE DEF IInv, TypeOK, Labels, Pairs, NoPair, dbVars, history, Goto, SetToken
<1>1. TypeOK' BY TokenAssumption
<1>2. FreshPairs' BY DEF FreshPairs, Spending
<1>3. StoredIsUsable' BY DEF StoredIsUsable, FreshPairs
<1>4. Gone' BY DEF Gone
<1>5. SignedOut' BY DEF SignedOut
<1> QED BY <1>1, <1>2, <1>3, <1>4, <1>5

LEMMA StepKeeps == IInv /\ [Next]_vars => IInv'
<1> SUFFICES ASSUME IInv, [Next]_vars PROVE IInv' OBVIOUS
<1>1. CASE SignIn BY <1>1, SignInKeeps
<1>2. CASE SignOut BY <1>2, QuietKeeps
<1>3. CASE \E n \in Pairs : AccessExpires(n) \/ RefreshExpires(n) BY <1>3, QuietKeeps
<1>4. ASSUME NEW q \in Requests, Request(q) PROVE IInv'
  BY <1>4, QuietKeeps, ReadRefreshKeeps, DeleteRowKeeps, GenerateKeeps, SetTokenKeeps DEF Request
<1>5. CASE UNCHANGED vars
  BY <1>5 DEF vars, dbVars, reqVars, history, IInv, TypeOK, FreshPairs, StoredIsUsable, Gone,
     SignedOut, Spending, Labels, Pairs, NoPair
<1> QED BY <1>1, <1>2, <1>3, <1>4, <1>5 DEF Next

\* Whatever requests do and in whatever order, the invariant holds.
THEOREM Invariance == Spec => []IInv
BY InitIInv, StepKeeps, PTL DEF Spec

\* Every variable has its type, and whoever spends a refresh token has one.
THEOREM TypeCorrect == Spec => []TypeOK
BY Invariance, PTL DEF IInv

\* However many requests race to refresh, the token in the file is good, is being
\* exchanged, or was exchanged in an answer that got lost (jwt.go:67-76, api.ts:50-67).
THEOREM StoredIsUsableHolds == Spec => []StoredIsUsable
BY Invariance, PTL DEF IInv

\* However many requests are under way when the user signs out, tokens come back to the file
\* only from a refresh that was on its way then (api.ts:50-66, useAuth.ts:58-61).
THEOREM SignedOutStaysOutHolds == Spec => []SignedOutStaysOut
<1>1. IInv => SignedOutStaysOut BY DEF IInv, SignedOut, SignedOutStaysOut
<1> QED BY <1>1, Invariance, PTL

\* A token that was exchanged for a pair is refused from then on: only requests that had
\* passed the SELECT before the DELETE can exchange it again (jwt.go:70-74).
THEOREM ReplayOverlapsHolds == Spec => ReplayOverlaps
<1>1. ASSUME IInv, [Next]_vars, NEW q \in Requests, pc[q] = "find", pc'[q] = "delete"
      PROVE  redeemed[spent[q]] = 0 \/ spent[q] \in kept
  <2>1. FindRow(q)
    <3>1. CASE \E p \in Requests : Request(p)
      BY <3>1, <1>1 DEF IInv, TypeOK, Request, ReadAccess, Fetch, ReadRefresh, FindRow, RefreshThrows,
         DeleteRow, Generate, GenerateFails, AnswerLost, Return, SetToken, Retry, ClearToken, Goto
    <3> QED
      BY <3>1, <1>1 DEF Next, SignIn, SignOut, AccessExpires, RefreshExpires, vars
  <2>2. spent[q] \in rows /\ spent[q] \in Pairs
    BY <2>1, <1>1, TokenAssumption DEF FindRow, Goto, IInv, TypeOK, Pairs
  <2> QED BY <2>2, <1>1 DEF IInv, Gone, TypeOK
<1>2. IInv /\ [Next]_vars =>
        [\A q \in Requests : pc[q] = "find" /\ pc'[q] = "delete" => redeemed[spent[q]] = 0 \/ spent[q] \in kept]_vars
  BY <1>1
<1> QED BY <1>2, Invariance, PTL DEF Spec, ReplayOverlaps
-----------------------------------------------------------------------------
(* Until two requests refresh at once.                                     *)

\* One request refreshes at a time, and one that was refused the token that is stored was
\* refused it because it ran out of time or was exchanged in an answer that got lost.
Cause ==
  ~overlapped =>
    /\ \A p, q \in Requests : pc[p] \in Refreshing /\ pc[q] \in Refreshing => p = q
    /\ \A q \in Requests :
         pc[q] = "clear" /\ stored # NoPair /\ spent[q] = stored => stored \in lapsed \cup lost \cup faulted

LEMMA CauseStep == ASSUME IInv, Cause, [Next]_vars PROVE Cause'
<1> USE DEF IInv, TypeOK, Cause, Refreshing, NoPair, Goto, dbVars, reqVars, history
<1>1. CASE SignIn BY <1>1 DEF SignIn
<1>2. CASE SignOut BY <1>2 DEF SignOut
<1>3. CASE \E n \in Pairs : AccessExpires(n) \/ RefreshExpires(n)
  BY <1>3 DEF AccessExpires, RefreshExpires
<1>4. ASSUME NEW q \in Requests, FindRow(q) PROVE Cause'
  <2>1. CASE spent[q] \in rows \ lapsed BY <1>4, <2>1 DEF FindRow
  <2>2. CASE ~overlapped /\ spent[q] \notin rows \ lapsed
    <3>1. pc[q] = "find" /\ spent[q] # NoPair BY <1>4 DEF FindRow
    <3>2. \A p \in Requests : pc[p] \notin {"generate", "set", "clear"} BY <2>2, <3>1
    <3>3. spent[q] = stored => stored \in lapsed \cup lost \cup faulted BY <2>2, <3>1, <3>2 DEF StoredIsUsable
    <3> QED BY <1>4, <2>2, <3>3 DEF FindRow
  <2>3. CASE overlapped BY <1>4, <2>3 DEF FindRow
  <2> QED BY <2>1, <2>2, <2>3
<1>5. ASSUME NEW q \in Requests, ReadRefresh(q) PROVE Cause'
  BY <1>5 DEF ReadRefresh
<1>6. ASSUME NEW q \in Requests, SetToken(q) PROVE Cause'
  BY <1>6 DEF SetToken
<1>7. ASSUME NEW q \in Requests, Generate(q) \/ GenerateFails(q) PROVE Cause'
  BY <1>7 DEF Generate, GenerateFails, AnswerLost, Return
<1>8. ASSUME NEW q \in Requests,
             ReadAccess(q) \/ Fetch(q) \/ RefreshThrows(q) \/ DeleteRow(q) \/ Retry(q)
      PROVE  Cause'
  BY <1>8 DEF ReadAccess, Fetch, RefreshThrows, DeleteRow, Retry, Return
<1>9. ASSUME NEW q \in Requests, ClearToken(q) PROVE Cause'
  BY <1>9 DEF ClearToken, Return
<1>10. CASE UNCHANGED vars BY <1>10 DEF vars
<1> QED BY <1>1, <1>2, <1>3, <1>4, <1>5, <1>6, <1>7, <1>8, <1>9, <1>10 DEF Next, Request

\* Until two requests refresh at once, nobody is signed out whose token was good: the token
\* that was refused had run out of time or was exchanged in an answer that got lost, or is
\* not the stored one any more (api.ts:50-66).
THEOREM SignedOutForCauseHolds == Spec => SignedOutForCause
<1>1. Init => Cause BY DEF Init, Cause, Refreshing
<1>2. Cause =>
        [~overlapped /\ stored # NoPair =>
           \A q \in Requests : pc[q] = "clear" /\ pc'[q] = "idle" =>
             stored \in lapsed \cup lost \cup faulted \/ spent[q] # stored]_vars
  BY DEF Cause
<1> QED BY <1>1, <1>2, CauseStep, Invariance, PTL DEF Spec, SignedOutForCause
=============================================================================
