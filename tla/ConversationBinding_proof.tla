---------------------- MODULE ConversationBinding_proof ----------------------
(***************************************************************************)
(* Proofs about ConversationBinding, for any number of requests and        *)
(* accounts and any bounds.                                                *)
(***************************************************************************)
EXTENDS ConversationBinding, TLAPS

AnchorOf(e) == IF e = 1 THEN ConversationId ELSE DeriveThreadAnchor(e)

\* Anchors follow epochs in the row, in every copy of it and in every row of the past.
Threaded ==
    /\ row # NoRow => row.anchor = AnchorOf(row.epoch)
    /\ \A r \in Requests : existing[r] # NoRow => existing[r].anchor = AnchorOf(existing[r].epoch)
    /\ \A b \in written : b.anchor = AnchorOf(b.epoch)

\* Without races and deletions the row is the newest of the rows ever written.
Newest == ~raced /\ deletes = 0 =>
    /\ row = NoRow => written = {}
    /\ row # NoRow => \A b \in written : b = row \/ b.epoch < row.epoch

\* What a request that is ready to choose knows about its binding.
Chosen == \A r \in Requests :
    pc[r] = "prepared" => selected[r] = BindingSelected(existing[r], untried[r], preferred[r])

Inv == TypeOK /\ Threaded /\ Newest /\ Chosen /\ OneAccountPerThreadUnlessRaced

-----------------------------------------------------------------------------
(* Threads                                                                  *)

LEMMA AnchorInjective ==
    ASSUME NEW e \in Nat, NEW f \in Nat, AnchorOf(e) = AnchorOf(f)
    PROVE  e = f
<1>1. "conversation" # "cmgr-thread"
  OBVIOUS
<1>2. \A n \in Nat : ConversationId # DeriveThreadAnchor(n)
  BY <1>1 DEF ConversationId, DeriveThreadAnchor
<1>3. ASSUME DeriveThreadAnchor(e) = DeriveThreadAnchor(f) PROVE e = f
  BY <1>3 DEF DeriveThreadAnchor
<1> QED BY <1>2, <1>3 DEF AnchorOf

\* A thread for an account is a row again, one whose anchor follows its epoch.
LEMMA AttemptThreadType ==
    ASSUME NEW b \in Rows \cup {NoRow}, NEW a \in Accounts,
           b # NoRow => b.anchor = AnchorOf(b.epoch)
    PROVE  /\ AttemptThread(b, a) \in Rows
           /\ AttemptThread(b, a).account = a
           /\ AttemptThread(b, a).anchor = AnchorOf(AttemptThread(b, a).epoch)
<1>1. CASE b = NoRow
  <2> DEFINE n == [account |-> a, epoch |-> 1, anchor |-> ConversationId]
  <2>1. n \in Rows
    BY DEF Rows
  <2> QED BY <1>1, <2>1 DEF AttemptThread, AnchorOf
<1>2. CASE b # NoRow /\ b.account = a
  BY <1>2 DEF AttemptThread
<1>3. CASE b # NoRow /\ b.account # a
  <2> DEFINE e == b.epoch + 1
             n == [account |-> a, epoch |-> e, anchor |-> DeriveThreadAnchor(e)]
  <2>1. e \in Nat /\ e > 1
    BY <1>3 DEF Rows
  <2>2. n \in Rows
    BY <2>1 DEF Rows, DeriveThreadAnchor
  <2> QED BY <1>3, <2>1, <2>2 DEF AttemptThread, AnchorOf, DeriveNextThreadEpoch
<1> QED BY <1>1, <1>2, <1>3

\* A request on another account than its copy's is an epoch ahead of that copy.
LEMMA SwitchIsNextEpoch ==
    ASSUME NEW b \in Rows, NEW a \in Accounts, b.account # a
    PROVE  AttemptThread(b, a).epoch = b.epoch + 1
  BY NoRowAssumption DEF AttemptThread, DeriveNextThreadEpoch

-----------------------------------------------------------------------------
(* The invariant                                                            *)

LEMMA InitInv == Init => Inv
<1> SUFFICES ASSUME Init PROVE Inv
  OBVIOUS
<1> USE DEF Init
<1>1. TypeOK
  BY DEF TypeOK, Stages
<1>2. Threaded /\ Newest
  BY DEF Threaded, Newest
<1>3. Chosen
  BY DEF Chosen
<1>4. OneAccountPerThreadUnlessRaced
  BY DEF OneAccountPerThreadUnlessRaced, OneAccountPerThread
<1> QED BY <1>1, <1>2, <1>3, <1>4 DEF Inv

\* The only step that writes: with a copy that is current it starts a newer thread.
LEMMA RebindsInv ==
    ASSUME Inv, NEW r \in Requests, Rebinds(r)
    PROVE  Inv'
<1> DEFINE n == AttemptThread(existing[r], current[r])
<1> USE DEF Inv, Rebinds, Ends
<1>1. current[r] \in Accounts /\ existing[r] \in Rows \cup {NoRow}
  BY DEF TypeOK, WritesRow
<1>2. n \in Rows /\ n.account = current[r] /\ n.anchor = AnchorOf(n.epoch) /\ n # NoRow
  BY <1>1, AttemptThreadType, NoRowAssumption DEF Threaded
<1>3. TypeOK'
  BY <1>2 DEF TypeOK, Stages, WritesRow
<1>4. Threaded'
  BY <1>2 DEF Threaded, TypeOK
<1>5. ASSUME ~raced', deletes' = 0
      PROVE  \A b \in written : b.epoch < n.epoch
  <2>1. existing[r] = row /\ ~raced /\ deletes = 0
    BY <1>5 DEF TypeOK
  <2>2. CASE row = NoRow
    BY <2>1, <2>2 DEF Newest
  <2>3. CASE row # NoRow
    <3>1. row \in Rows /\ row.account # current[r]
      BY <2>1, <2>3 DEF TypeOK, WritesRow, Stays
    <3>2. n.epoch = row.epoch + 1
      BY <1>1, <2>1, <3>1, SwitchIsNextEpoch
    <3>3. \A b \in written : b.epoch \in Nat /\ (b = row \/ b.epoch < row.epoch)
      BY <2>1, <2>3 DEF Newest, TypeOK, Rows
    <3> QED BY <3>1, <3>2, <3>3 DEF Rows
  <2> QED BY <2>2, <2>3
<1>6. Newest'
  BY <1>2, <1>5 DEF Newest
<1>7. OneAccountPerThreadUnlessRaced'
  <2> SUFFICES ASSUME ~raced', deletes' = 0, NEW b \in written', NEW c \in written',
                      b.anchor = c.anchor
               PROVE  b.account = c.account
    BY DEF OneAccountPerThreadUnlessRaced, OneAccountPerThread
  <2>1. ~raced /\ deletes = 0 /\ OneAccountPerThread
    BY DEF OneAccountPerThreadUnlessRaced, TypeOK
  <2>2. \A d \in written : d.anchor # n.anchor
    <3> SUFFICES ASSUME NEW d \in written, d.anchor = n.anchor PROVE FALSE
      OBVIOUS
    <3>1. d.epoch \in Nat /\ n.epoch \in Nat /\ d.anchor = AnchorOf(d.epoch)
      BY <1>2 DEF TypeOK, Rows, Threaded
    <3> QED BY <1>2, <1>5, <3>1, AnchorInjective
  <2> QED BY <2>1, <2>2 DEF OneAccountPerThread
<1>8. Chosen'
  BY DEF Chosen, TypeOK
<1> QED BY <1>3, <1>4, <1>6, <1>7, <1>8

\* Deleting an account is what the history counts.
LEMMA DeleteInv ==
    ASSUME Inv, NEW a \in Accounts, DeleteAccount(a)
    PROVE  Inv'
<1> USE DEF Inv, DeleteAccount, requestVars
<1>1. TypeOK'
  BY DEF TypeOK, ManualWithout
<1>2. deletes' # 0
  BY DEF TypeOK
<1> QED BY <1>1, <1>2 DEF Threaded, Newest, Chosen, OneAccountPerThreadUnlessRaced

\* Every other step of a request leaves the rows alone.
LEMMA RequestInv ==
    ASSUME Inv, NEW r \in Requests, RequestStep(r)
    PROVE  Inv'
<1> USE DEF Inv, Threaded, Newest, OneAccountPerThreadUnlessRaced, OneAccountPerThread,
            Chosen, TypeOK, Stages
<1>1. CASE Loads(r)
  BY <1>1 DEF Loads
<1>2. CASE Collects(r)
  BY <1>2 DEF Collects
<1>3. CASE NoCandidates(r)
  BY <1>3 DEF NoCandidates
<1>4. CASE Prepares(r)
  <2> DEFINE m == IF manual \in untried[r] THEN manual ELSE NoAccount
  <2>1. m \in Accounts \cup {NoAccount} /\ BindingSelected(existing[r], untried[r], m) \in BOOLEAN
    BY DEF BindingSelected
  <2>2. Chosen'
    BY <1>4, <2>1 DEF Prepares
  <2>3. TypeOK'
    BY <1>4, <2>1 DEF Prepares
  <2> QED BY <1>4, <2>2, <2>3 DEF Prepares
<1>5. CASE Rotates(r)
  BY <1>5, NoAccountAssumption DEF Rotates, SendsTo
<1>6. CASE TriesNext(r)
  BY <1>6, NoAccountAssumption DEF TriesNext, SendsTo
<1>7. CASE GivesUp(r)
  BY <1>7 DEF GivesUp, Ends
<1>8. CASE Delivers(r)
  BY <1>8 DEF Delivers
<1>9. CASE Rebinds(r)
  BY <1>9, RebindsInv
<1>10. CASE LeavesRow(r)
  BY <1>10 DEF LeavesRow, Ends
<1>11. CASE WriteFails(r)
  BY <1>11 DEF WriteFails, Ends
<1> QED BY <1>1, <1>2, <1>3, <1>4, <1>5, <1>6, <1>7, <1>8, <1>9, <1>10, <1>11 DEF RequestStep

\* The invariant is inductive.
THEOREM InvInductive == Inv /\ [Next]_vars => Inv'
<1> SUFFICES ASSUME Inv, [Next]_vars PROVE Inv'
  OBVIOUS
<1>1. CASE \E r \in Requests : RequestStep(r)
  BY <1>1, RequestInv
<1>2. CASE \E a \in Accounts : DeleteAccount(a)
  BY <1>2, DeleteInv
<1>3. ASSUME NEW a \in Accounts \cup {NoAccount}, PreferAccount(a) PROVE Inv'
  BY <1>3 DEF PreferAccount, requestVars, Inv, TypeOK, Threaded, Newest, Chosen,
     OneAccountPerThreadUnlessRaced, OneAccountPerThread
<1>4. CASE UNCHANGED vars
  BY <1>4 DEF vars, Inv, TypeOK, Threaded, Newest, Chosen,
     OneAccountPerThreadUnlessRaced, OneAccountPerThread
<1> QED BY <1>1, <1>2, <1>3, <1>4 DEF Next

-----------------------------------------------------------------------------
(* What a reader should know                                                *)

\* Type correctness; the anchors of all rows; a switched request leaves the old thread; and
\* no two accounts share a thread before a race or a deletion.
THEOREM BindingInvariant ==
    Spec => [](/\ TypeOK /\ AnchorFollowsEpoch
               /\ SwitchedRequestLeavesThread /\ OneAccountPerThreadUnlessRaced)
<1>1. Inv => AnchorFollowsEpoch
  BY DEF Inv, Threaded, AnchorFollowsEpoch, AnchorOf
<1>2. Inv => SwitchedRequestLeavesThread
  <2> SUFFICES ASSUME Inv, NEW r \in Requests, current[r] # NoAccount, existing[r] # NoRow,
                      existing[r].account # current[r]
               PROVE  AttemptThread(existing[r], current[r]).anchor # existing[r].anchor
    BY DEF SwitchedRequestLeavesThread
  <2> DEFINE n == AttemptThread(existing[r], current[r])
  <2>1. existing[r] \in Rows /\ current[r] \in Accounts /\ existing[r].epoch \in Nat
    BY DEF Inv, TypeOK, Rows
  <2>2. existing[r].anchor = AnchorOf(existing[r].epoch)
    BY DEF Inv, Threaded
  <2>3. n.anchor = AnchorOf(n.epoch)
    BY <2>1, <2>2, AttemptThreadType
  <2>4. n.epoch = existing[r].epoch + 1
    BY <2>1, SwitchIsNextEpoch
  <2> QED BY <2>1, <2>2, <2>3, <2>4, AnchorInjective
<1>3. Inv => TypeOK /\ OneAccountPerThreadUnlessRaced
  BY DEF Inv
<1> QED BY <1>1, <1>2, <1>3, InitInv, InvInductive, PTL DEF Spec

\* A request that stayed on its account never changes the row, whoever moved it meanwhile.
THEOREM SwitchSurvivesSlowAnswers == Spec => SlowAnswerKeepsSwitch
<1>1. ASSUME Inv, [Next]_vars
      PROVE  [\A r \in Requests : Answered(r) /\ Stays(r) /\ pc'[r] = "idle" => row' = row]_vars
  <2> SUFFICES ASSUME Next, NEW r \in Requests, Answered(r), Stays(r), pc'[r] = "idle"
               PROVE  row' = row
    BY <1>1
  <2> USE <1>1 DEF Inv, TypeOK, Answered
  <2>1. ASSUME NEW q \in Requests, RequestStep(q) PROVE row' = row
    <3>1. CASE Rebinds(q)
      <4>1. q # r
        BY <3>1 DEF Rebinds, WritesRow
      <4> QED BY <3>1, <4>1 DEF Rebinds, Ends
    <3>2. CASE ~Rebinds(q)
      BY <2>1, <3>2 DEF RequestStep, Loads, Collects, NoCandidates, Prepares, Rotates, TriesNext,
         SendsTo, GivesUp, Delivers, LeavesRow, WriteFails
    <3> QED BY <3>1, <3>2
  <2>2. ASSUME NEW a \in Accounts, DeleteAccount(a) PROVE row' = row
    BY <2>2 DEF DeleteAccount, requestVars
  <2>3. ASSUME NEW a \in Accounts \cup {NoAccount}, PreferAccount(a) PROVE row' = row
    BY <2>3 DEF PreferAccount
  <2> QED BY <2>1, <2>2, <2>3 DEF Next
<1> QED BY <1>1, InitInv, InvInductive, PTL DEF Spec, SlowAnswerKeepsSwitch

\* A bound conversation goes to its account first.
THEOREM BoundFirst == Spec => BoundAccountFirst
<1> DEFINE First(r) == /\ pc[r] = "prepared" /\ pc'[r] = "sending"
                       /\ preferred[r] = NoAccount
                       /\ existing[r] # NoRow /\ existing[r].account \in untried[r]
<1>1. ASSUME Inv, [Next]_vars
      PROVE  [\A r \in Requests : First(r) => current'[r] = existing[r].account]_vars
  <2> SUFFICES ASSUME Next, NEW r \in Requests, First(r)
               PROVE  current'[r] = existing[r].account
    BY <1>1
  <2>1. selected[r]
    BY <1>1 DEF Inv, Chosen, BindingSelected
  <2> USE <1>1 DEF Inv, TypeOK
  <2>2. ASSUME NEW q \in Requests, RequestStep(q) PROVE current'[r] = existing[r].account
    <3>1. CASE Rotates(q)
      <4>1. q = r
        BY <3>1 DEF Rotates, SendsTo
      <4> QED BY <3>1, <4>1, <2>1 DEF Rotates, SendsTo
    <3>2. CASE ~Rotates(q)
      BY <2>2, <3>2 DEF RequestStep, Loads, Collects, NoCandidates, Prepares, TriesNext,
         SendsTo, GivesUp, Delivers, Rebinds, WritesRow, LeavesRow, Answered, WriteFails, Ends
    <3> QED BY <3>1, <3>2
  <2>3. ASSUME NEW a \in Accounts, DeleteAccount(a) PROVE FALSE
    BY <2>3 DEF DeleteAccount, requestVars
  <2>4. ASSUME NEW a \in Accounts \cup {NoAccount}, PreferAccount(a) PROVE FALSE
    BY <2>4 DEF PreferAccount, requestVars
  <2> QED BY <2>2, <2>3, <2>4 DEF Next
<1> QED BY <1>1, InitInv, InvInductive, PTL DEF Spec, BoundAccountFirst

\* The variables of the bindings keep their types (conversation_binding.rs).
THEOREM TypeCorrect == Spec => []TypeOK
  BY BindingInvariant, PTL

\* The anchor of a row is the one derived from its epoch, whoever wrote it
\* (conversation_binding.rs, derive_next_thread_epoch).
THEOREM AnchorsFollowEpochs == Spec => []AnchorFollowsEpoch
  BY BindingInvariant, PTL

\* A request that was switched to another account uses a thread other than that
\* of the account it left (conversation_binding.rs, resolve_attempt_thread).
THEOREM SwitchLeavesThread == Spec => []SwitchedRequestLeavesThread
  BY BindingInvariant, PTL
=============================================================================
