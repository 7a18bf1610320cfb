------------------------- MODULE ConversationBinding -------------------------
(***************************************************************************)
(* The binding of one conversation of one API key to an upstream account   *)
(* (gateway/routing/conversation_binding.rs, its row in the database, and  *)
(* the path of a request through upstream/proxy.rs that reads and writes   *)
(* it).  The row names the account the conversation runs on and the        *)
(* upstream thread it uses there: an epoch and the anchor sent upstream.   *)
(*                                                                         *)
(* A request reads the row while it is validated, keeps that copy, orders  *)
(* its candidates, sends to them in turn, and writes the row only when one *)
(* of them has answered and the answer was delivered.  Nothing holds the   *)
(* conversation in between: the request gate is keyed by API key, path and *)
(* model, is taken after the copy was read, and lets a request through     *)
(* when its wait ends.  So every database call is a step of its own here.  *)
(* Rows of different conversations share nothing; one is enough.           *)
(***************************************************************************)
EXTENDS Integers, FiniteSets

CONSTANTS
    Requests,      \* worker threads serving requests of the conversation
    Accounts,      \* account identifiers
    NoAccount,     \* "no account"
    NoRow,         \* "no row": the Option<ConversationBinding> None
    MaxRequests,   \* bound of the model: requests of the conversation
    MaxDeletes,    \* bound of the model: accounts deleted
    MaxManual      \* bound of the model: changes of the manual preference

ASSUME NoAccountAssumption == NoAccount \notin Accounts
ASSUME BoundsAssumption == MaxRequests \in Nat /\ MaxDeletes \in Nat /\ MaxManual \in Nat

VARIABLES
    accounts,   \* the accounts that exist
    manual,     \* the account marked preferred, or NoAccount
    row,        \* the conversation's row
    pc,         \* where each request is
    existing,   \* routing.existing_binding: its copy of the row
    untried,    \* the candidates it has not started on
    preferred,  \* routing.manual_preferred_account_id
    selected,   \* routing.binding_selected
    current,    \* the account it is sending to
    served,     \* bound of the model: requests so far
    deletes,    \* history: accounts deleted so far
    changes,    \* bound of the model: changes of the manual preference
    written,    \* history: every row written
    raced       \* history: a row was overwritten that its writer had not read

requestVars == <<pc, existing, untried, preferred, selected, current>>
vars == <<accounts, manual, row, pc, existing, untried, preferred, selected, current,
          served, deletes, changes, written, raced>>

Stages == {"idle", "loaded", "collected", "prepared", "sending", "accepted", "refused"}

-----------------------------------------------------------------------------
(* Threads                                                                  *)

\* The client's own conversation id: the anchor of the first thread.
ConversationId == <<"conversation", 0>>

\* A hash of the API key, the conversation and the epoch, and the epoch itself.
DeriveThreadAnchor(e) == <<"cmgr-thread", e>>

Rows == [account : Accounts, epoch : Nat \ {0},
         anchor : {ConversationId} \cup ({"cmgr-thread"} \X Nat)]

ASSUME NoRowAssumption == NoRow \notin Rows

\* A plausible slip: the new thread is derived from the epoch being left.
SameEpoch(b) == b.epoch

DeriveNextThreadEpoch(b) == b.epoch + 1

\* A plausible slip: a switched account goes on in the thread it finds.
KeepsThread(b, a) ==
    IF b = NoRow THEN [account |-> a, epoch |-> 1, anchor |-> ConversationId]
    ELSE [account |-> a, epoch |-> b.epoch, anchor |-> b.anchor]

\* The thread a request that read b uses with account a.
AttemptThread(b, a) ==
    IF b = NoRow
    THEN [account |-> a, epoch |-> 1, anchor |-> ConversationId]
    ELSE IF b.account = a
    THEN b
    ELSE LET e == DeriveNextThreadEpoch(b)
         IN  [account |-> a, epoch |-> e, anchor |-> DeriveThreadAnchor(e)]

Init == /\ accounts = Accounts
        /\ manual = NoAccount
        /\ row = NoRow
        /\ pc = [r \in Requests |-> "idle"]
        /\ existing = [r \in Requests |-> NoRow]
        /\ untried = [r \in Requests |-> {}]
        /\ preferred = [r \in Requests |-> NoAccount]
        /\ selected = [r \in Requests |-> FALSE]
        /\ current = [r \in Requests |-> NoAccount]
        /\ served = 0 /\ deletes = 0 /\ changes = 0
        /\ written = {}
        /\ raced = FALSE

-----------------------------------------------------------------------------
(* The request's way to its first candidate                                 *)

\* load_conversation_binding, while the request is validated.
Loads(r) ==
    /\ pc[r] = "idle" /\ served < MaxRequests
    /\ pc' = [pc EXCEPT ![r] = "loaded"]
    /\ existing' = [existing EXCEPT ![r] = row]
    /\ served' = served + 1
    /\ UNCHANGED <<accounts, manual, row, untried, preferred, selected, current,
                   deletes, changes, written, raced>>

\* prepare_candidates_for_proxy: the accounts that happen to be usable, or were when the
\* candidate cache was filled, which may be before one of them was deleted.
Collects(r) ==
    /\ pc[r] = "loaded"
    /\ pc' = [pc EXCEPT ![r] = "collected"]
    /\ \E usable \in SUBSET Accounts \ {{}} : untried' = [untried EXCEPT ![r] = usable]
    /\ UNCHANGED <<accounts, manual, row, existing, preferred, selected, current,
                   served, deletes, changes, written, raced>>

\* No candidate at all: the request is answered without one.
NoCandidates(r) ==
    /\ pc[r] = "loaded"
    /\ pc' = [pc EXCEPT ![r] = "idle"]
    /\ existing' = [existing EXCEPT ![r] = NoRow]
    /\ UNCHANGED <<accounts, manual, row, untried, preferred, selected, current,
                   served, deletes, changes, written, raced>>

\* A plausible slip: only a manual preference is looked at.
SelectsManualOnly(b, candidates, m) == m # NoAccount /\ b # NoRow /\ b.account = m

\* binding_selected: the bound account leads the candidates.
BindingSelected(b, candidates, m) ==
    /\ b # NoRow
    /\ IF m # NoAccount THEN b.account = m ELSE b.account \in candidates

\* prepare_conversation_routing.
Prepares(r) ==
    LET m == IF manual \in untried[r] THEN manual ELSE NoAccount
    IN  /\ pc[r] = "collected"
        /\ pc' = [pc EXCEPT ![r] = "prepared"]
        /\ preferred' = [preferred EXCEPT ![r] = m]
        /\ selected' = [selected EXCEPT ![r] = BindingSelected(existing[r], untried[r], m)]
        /\ UNCHANGED <<accounts, manual, row, existing, untried, current,
                       served, deletes, changes, written, raced>>

\* The next turn of the candidate loop: a is passed over or sent the request.
SendsTo(r, a) ==
    /\ pc' = [pc EXCEPT ![r] = "sending"]
    /\ current' = [current EXCEPT ![r] = a]
    /\ untried' = [untried EXCEPT ![r] = @ \ {a}]
    /\ UNCHANGED <<accounts, manual, row, existing, preferred, selected,
                   served, deletes, changes, written, raced>>

\* apply_candidate_rotation, and the first candidate.  The route strategy, which runs when the
\* binding is not selected, reads the manual preference again; without one its order is free.
Rotates(r) ==
    /\ pc[r] = "prepared"
    /\ \E a \in untried[r] :
         /\ selected[r] => a = existing[r].account
         /\ ~selected[r] /\ manual \in untried[r] => a = manual
         /\ SendsTo(r, a)

-----------------------------------------------------------------------------
(* The candidates, and the end of the request                               *)

\* The candidate is skipped or fails over: the next one.
TriesNext(r) ==
    /\ pc[r] = "sending"
    /\ \E a \in untried[r] : SendsTo(r, a)

Ends(r) == /\ pc' = [pc EXCEPT ![r] = "idle"]
           /\ existing' = [existing EXCEPT ![r] = NoRow]
           /\ untried' = [untried EXCEPT ![r] = {}]
           /\ preferred' = [preferred EXCEPT ![r] = NoAccount]
           /\ selected' = [selected EXCEPT ![r] = FALSE]
           /\ current' = [current EXCEPT ![r] = NoAccount]

\* A terminal error, the deadline or the last candidate's failure: nothing is recorded.
GivesUp(r) ==
    /\ pc[r] = "sending"
    /\ Ends(r)
    /\ UNCHANGED <<accounts, manual, row, served, deletes, changes, written, raced>>

\* The upstream's answer has been delivered, with a status below 400 or not.
Delivers(r) ==
    /\ pc[r] = "sending"
    /\ \E outcome \in {"accepted", "refused"} : pc' = [pc EXCEPT ![r] = outcome]
    /\ UNCHANGED <<accounts, manual, row, existing, untried, preferred, selected, current,
                   served, deletes, changes, written, raced>>

Answered(r) == pc[r] \in {"accepted", "refused"}

\* The request stayed on the account its copy names.
Stays(r) == existing[r] # NoRow /\ existing[r].account = current[r]

\* A plausible slip: any answer is written down, staying or not.
WritesAlways(r) == pc[r] = "accepted"

\* record_conversation_binding_terminal_response writes the thread of a new or switched
\* account; for an account kept it only touches times and model of the row.
WritesRow(r) == pc[r] = "accepted" /\ ~Stays(r)

\* upsert_conversation_binding: whatever is there is overwritten.
Rebinds(r) ==
    /\ WritesRow(r)
    /\ row' = AttemptThread(existing[r], current[r])
    /\ written' = written \cup {row'}
    /\ raced' = (raced \/ existing[r] # row)
    /\ Ends(r)
    /\ UNCHANGED <<accounts, manual, served, deletes, changes>>

\* The answer changes nothing in the row that is modelled.
LeavesRow(r) ==
    /\ Answered(r) /\ ~WritesRow(r)
    /\ Ends(r)
    /\ UNCHANGED <<accounts, manual, row, served, deletes, changes, written, raced>>

\* The database refuses the write; the error is only logged.
WriteFails(r) ==
    /\ WritesRow(r)
    /\ Ends(r)
    /\ UNCHANGED <<accounts, manual, row, served, deletes, changes, written, raced>>

-----------------------------------------------------------------------------
(* Around the requests                                                      *)

\* A plausible slip: the mark outlives the account.
KeepsMark(a) == manual

\* The preference is a mark on the account's own row.
ManualWithout(a) == IF manual = a THEN NoAccount ELSE manual

\* Storage::delete_account: the account, its preference mark and its bindings.
DeleteAccount(a) ==
    /\ a \in accounts /\ deletes < MaxDeletes
    /\ accounts' = accounts \ {a}
    /\ manual' = ManualWithout(a)
    /\ row' = IF row # NoRow /\ row.account = a THEN NoRow ELSE row
    /\ deletes' = deletes + 1
    /\ UNCHANGED <<requestVars, served, changes, written, raced>>

\* set_manual_preferred_account and clear_manual_preferred_account.
PreferAccount(a) ==
    /\ changes < MaxManual
    /\ a \in accounts \cup {NoAccount} /\ a # manual
    /\ manual' = a
    /\ changes' = changes + 1
    /\ UNCHANGED <<accounts, row, requestVars, served, deletes, written, raced>>

RequestStep(r) ==
    \/ Loads(r) \/ Collects(r) \/ NoCandidates(r) \/ Prepares(r) \/ Rotates(r)
    \/ TriesNext(r) \/ GivesUp(r) \/ Delivers(r)
    \/ Rebinds(r) \/ LeavesRow(r) \/ WriteFails(r)

Next == \/ \E r \in Requests : RequestStep(r)
        \/ \E a \in Accounts : DeleteAccount(a)
        \/ \E a \in Accounts \cup {NoAccount} : PreferAccount(a)

Spec == Init /\ [][Next]_vars

-----------------------------------------------------------------------------
(* Properties                                                               *)

\* Every variable has its type; a request that is sending has an account, one that is done
\* has given everything back.
TypeOK ==
    /\ accounts \subseteq Accounts
    /\ manual \in accounts \cup {NoAccount}
    /\ row \in Rows \cup {NoRow}
    /\ pc \in [Requests -> Stages]
    /\ existing \in [Requests -> Rows \cup {NoRow}]
    /\ untried \in [Requests -> SUBSET Accounts]
    /\ preferred \in [Requests -> Accounts \cup {NoAccount}]
    /\ selected \in [Requests -> BOOLEAN]
    /\ current \in [Requests -> Accounts \cup {NoAccount}]
    /\ served \in Nat /\ deletes \in Nat /\ changes \in Nat
    /\ written \in SUBSET Rows
    /\ raced \in BOOLEAN
    /\ \A r \in Requests : pc[r] \in {"sending", "accepted", "refused"} <=> current[r] # NoAccount

\* The anchor stored with a row is always the one its epoch calls for: the conversation's own
\* id in the first epoch and the derived one in every later epoch, for every row ever written.
AnchorFollowsEpoch ==
    \A b \in written :
        b.anchor = IF b.epoch = 1 THEN ConversationId ELSE DeriveThreadAnchor(b.epoch)

\* A request that sends to another account than the one its copy names never uses the thread
\* of that account: no upstream account sees a thread that the request knows to be another's.
SwitchedRequestLeavesThread ==
    \A r \in Requests :
        current[r] # NoAccount /\ existing[r] # NoRow /\ existing[r].account # current[r] =>
            AttemptThread(existing[r], current[r]).anchor # existing[r].anchor

\* The promise of the documentation: a conversation that moves to another account moves to
\* another thread, so that no two accounts are ever bound to one thread.
OneAccountPerThread ==
    \A b, c \in written : b.anchor = c.anchor => b.account = c.account

\* What the code makes of it: the promise holds as long as no account is deleted and no
\* request overwrites a row it had not read.
OneAccountPerThreadUnlessRaced ==
    ~raced /\ deletes = 0 => OneAccountPerThread

\* A request that stayed on the account of its copy never changes the row, even when another
\* request has moved the conversation in the meantime: a slow answer cannot undo a switch.
SlowAnswerKeepsSwitch ==
    [][\A r \in Requests : Answered(r) /\ Stays(r) /\ pc'[r] = "idle" => row' = row]_vars

\* A bound conversation goes to its account first: when no manual preference was in force as
\* the request was prepared, and the account its copy names is among its candidates, that is
\* the one it sends to first, also when a preference has been set since.
BoundAccountFirst ==
    [][\A r \in Requests :
         /\ pc[r] = "prepared" /\ pc'[r] = "sending"
         /\ preferred[r] = NoAccount
         /\ existing[r] # NoRow /\ existing[r].account \in untried[r]
         => current'[r] = existing[r].account]_vars
=============================================================================
