------------------------------ MODULE Allowlist ------------------------------
(***************************************************************************)
(* The two allowlists of the sig-store, tokens and chain pairs: operators  *)
(* edit them over HTTP, and a node fetches both before every batch and     *)
(* signs (a validator, a Solana relayer) or claims (a keeper) only what    *)
(* they allow.                                                             *)
(*                                                                         *)
(* An empty list allows everything, so a list that has entries must not    *)
(* become empty by accident, and a node told that the lists matter must    *)
(* not act on an empty one.  The node's local policy is what it has        *)
(* against a store that serves less than it holds.                         *)
(***************************************************************************)
EXTENDS Naturals, FiniteSets

CONSTANTS
    Tokens, Pairs,   \* what the lists hold: assets, and source-target pairs
    Transfers,       \* the transfers sent: [token, pair]
    Sessions,        \* HTTP requests of operators in progress at a time
    Deployments,     \* sets of credentials the sig-store is configured with
    Policies,        \* the [allowlist] sections: [require, tokens, chains]
    MaxEdits         \* bound: edits of the lists

VARIABLES
    configured,  \* the credentials of this deployment
    policy,      \* the node's AllowlistPolicy
    table,       \* the committed rows: [tokens, chains]
    locked,      \* per table, the session that has it locked, or Free
    edit,        \* per session, the transaction it is in
    fetched,        \* the node's fetch, and the list it enforces
    todo,        \* transfers the node has yet to handle
    signed, passed,
    listed,      \* rows listed at some time since the fetch began, and were both lists on then?
    foreign,     \* rows added with another credential than an operator's
    edits

allowlistVars == <<configured, policy, table, locked, edit, fetched, todo, signed, passed, listed, foreign, edits>>

Dimension == {"tokens", "chains"}
Rows(d) == IF d = "tokens" THEN Tokens ELSE Pairs
Free == "free"

ASSUME AllowlistAssumption == Free \notin Sessions

NoEdit == [step |-> "none"]
NoView == [step |-> "none"]
NoList == [tokens |-> {}, chains |-> {}]

-----------------------------------------------------------------------------
(* Credentials.                                                            *)

\* What each configured token may do.
auth(c) ==
    {"Read"} \cup IF c = "legacy" THEN {"Sign", "Relay", "Indexer", "Admin"}
                  ELSE IF c = "validator" THEN {"Sign"}
                  ELSE IF c = "keeper" THEN {"Relay"}
                  ELSE IF c = "indexer" THEN {"Indexer"}
                  ELSE IF c = "admin" THEN {"Admin"} ELSE {}

\* The scope a route asks for.
build_app(route) ==
    IF route \in {"list_submissions", "list_tokens", "list_chains"} THEN "Read"
    ELSE IF route \in {"post_submission", "post_attestation"} THEN "Sign"
    ELSE IF route = "post_claimed" THEN "Relay"
    ELSE IF route = "post_observed" THEN "Indexer" ELSE "Admin"

\* With no credential configured everyone has every scope ...
allows(c, scope) == configured = {} \/ scope \in auth(c)

\* ... and the service refuses to start.
require_credentials(creds) == creds # {}

may(c, route) == allows(c, build_app(route))

-----------------------------------------------------------------------------
(* Editing.                                                                *)

AllowlistInit ==
    /\ configured \in Deployments /\ require_credentials(configured)
    /\ policy \in Policies
    /\ table \in [tokens: SUBSET Tokens, chains: SUBSET Pairs]
    /\ locked = [d \in Dimension |-> Free]
    /\ edit = [s \in Sessions |-> NoEdit]
    /\ fetched = NoView /\ todo = Transfers /\ signed = {} /\ passed = {}
    /\ foreign = {} /\ edits = 0
    /\ listed = [tokens |-> {}, chains |-> {}, on |-> FALSE]

table_unlocked_Always(d) == TRUE

\* LOCK TABLE ... IN SHARE ROW EXCLUSIVE MODE: no other writer.
table_unlocked(d) == locked[d] = Free

add(c, d, r) ==
    /\ may(c, "add") /\ edits < MaxEdits
    /\ table_unlocked(d)
    /\ r \notin table[d]
    /\ table' = [table EXCEPT ![d] = @ \cup {r}]
    /\ listed' = [listed EXCEPT ![d] = @ \cup {r}]
    /\ foreign' = IF c \in {"admin", "legacy"} THEN foreign ELSE foreign \cup {r}
    /\ edits' = edits + 1
    /\ UNCHANGED <<configured, policy, locked, edit, fetched, todo, signed, passed>>

\* The row is deleted inside a transaction that holds the table's lock; a row that is not
\* there ends it at once.
remove(s, c, d, r) ==
    /\ edit[s] = NoEdit /\ may(c, "remove") /\ edits < MaxEdits
    /\ table_unlocked(d)
    /\ r \in table[d]
    /\ locked' = [locked EXCEPT ![d] = s]
    /\ edit' = [edit EXCEPT ![s] = [step |-> "deleted", table |-> d, row |-> r]]
    /\ edits' = edits + 1
    /\ UNCHANGED <<configured, policy, table, fetched, todo, signed, passed, listed, foreign>>

Release(s) ==
    /\ edit' = [edit EXCEPT ![s] = NoEdit]
    /\ locked' = [locked EXCEPT ![edit[s].table] = IF @ = s THEN Free ELSE @]

\* The rows left are counted in the transaction's own view; none left rolls it back.
refuse_if_emptied(s) ==
    /\ edit[s].step = "deleted"
    /\ IF table[edit[s].table] \ {edit[s].row} = {}
       THEN Release(s)
       ELSE edit' = [edit EXCEPT ![s].step = "counted"] /\ UNCHANGED locked
    /\ UNCHANGED <<configured, policy, table, fetched, todo, signed, passed, listed, foreign, edits>>

commit_removal(s) ==
    /\ edit[s].step = "counted"
    /\ table' = [table EXCEPT ![edit[s].table] = @ \ {edit[s].row}]
    /\ Release(s)
    /\ UNCHANGED <<configured, policy, fetched, todo, signed, passed, listed, foreign, edits>>

\* The request is dropped before its commit.
rollback(s) ==
    /\ edit[s] # NoEdit
    /\ Release(s)
    /\ UNCHANGED <<configured, policy, table, fetched, todo, signed, passed, listed, foreign, edits>>

-----------------------------------------------------------------------------
(* Enforcing.                                                              *)

required == policy.require \/ policy.tokens # {} \/ policy.chains # {}

\* A store may serve less than it holds to a node that has a policy against that.
served_rows(d) == IF required THEN SUBSET table[d] ELSE {table[d]}

\* The two lists are fetched one after the other.
allowed_tokens ==
    /\ fetched = NoView /\ todo # {}
    /\ \E t \in served_rows("tokens") : fetched' = [step |-> "tokens", tokens |-> t]
    /\ listed' = [tokens |-> table.tokens, chains |-> table.chains,
                  on |-> table.tokens # {} /\ table.chains # {}]
    /\ UNCHANGED <<configured, policy, table, locked, edit, todo, signed, passed, foreign, edits>>

has_token(list, t) == t \in list.tokens
has_chain(list, p) == p \in list.chains

\* AllowlistPolicy::check, the list as served: refuse it, enforce nothing, or enforce it.
check_AnyEntry(list) ==
    IF list = NoList THEN IF required THEN "refuse" ELSE "off" ELSE "enforce"

check_Unpinned(list) ==
    IF required /\ (list.tokens = {} \/ list.chains = {}) THEN "refuse"
    ELSE IF list = NoList THEN "off" ELSE "enforce"

check(list) ==
    IF list = NoList THEN IF required THEN "refuse" ELSE "off"
    ELSE IF \/ required /\ (list.tokens = {} \/ list.chains = {})
            \/ \E t \in policy.tokens : ~ has_token(list, t)
            \/ \E p \in policy.chains : ~ has_chain(list, p)
         THEN "refuse" ELSE "enforce"

\* The second list comes, and the policy is applied; a refused list, or a failed fetch, ends
\* the tick with nothing handled.
fetch_allowlist ==
    /\ fetched.step = "tokens"
    /\ \E p \in served_rows("chains") :
         LET list == [tokens |-> fetched.tokens, chains |-> p]
         IN  fetched' = IF check(list) = "refuse" THEN NoView
                     ELSE [step |-> check(list), list |-> list]
    /\ UNCHANGED <<configured, policy, table, locked, edit, todo, signed, passed, listed, foreign, edits>>

\* Per list, empty allows all.
token_allowed(list, t) == list.tokens = {} \/ t \in list.tokens
chain_allowed(list, p) == list.chains = {} \/ p \in list.chains

\* One transfer of the batch: signed, or passed over for good.
handle(x) ==
    /\ fetched.step \in {"off", "enforce"} /\ x \in todo
    /\ todo' = todo \ {x}
    /\ IF fetched.step = "off" \/ (token_allowed(fetched.list, x.token) /\ chain_allowed(fetched.list, x.pair))
       THEN signed' = signed \cup {x} /\ UNCHANGED passed
       ELSE passed' = passed \cup {x} /\ UNCHANGED signed
    /\ UNCHANGED <<configured, policy, table, locked, edit, fetched, listed, foreign, edits>>

\* The batch ends, or is given up half way; the next one fetches again.
end_batch ==
    /\ fetched # NoView
    /\ fetched' = NoView
    /\ UNCHANGED <<configured, policy, table, locked, edit, todo, signed, passed, listed, foreign, edits>>

AllowlistNext ==
    \/ \E c \in configured, d \in Dimension : \E r \in Rows(d) :
         add(c, d, r) \/ \E s \in Sessions : remove(s, c, d, r)
    \/ \E s \in Sessions : refuse_if_emptied(s) \/ commit_removal(s) \/ rollback(s)
    \/ allowed_tokens \/ fetch_allowlist \/ end_batch
    \/ \E x \in Transfers : handle(x)

AllowlistSpec == AllowlistInit /\ [][AllowlistNext]_allowlistVars

-----------------------------------------------------------------------------
\* bridge-db 425-462.  A list that has entries keeps one, whatever removals run at the same
\* time: enforcement is never switched off by one more DELETE.
EnforcementStaysOn == [][\A d \in Dimension : table[d] # {} => table'[d] # {}]_allowlistVars

\* allow.rs 332-377, sig-store 436-513.  Where both lists had entries when the node asked, or
\* the node insists on them, what it signs was on both at some time since, put there by an
\* operator; and it passes over no transfer that its own configuration pins, whatever a store
\* leaves out.
AllowlistIsHonoured ==
    [][/\ \A x \in signed' \ signed :
            required \/ listed.on => /\ x.token \in listed.tokens \ foreign
                                    /\ x.pair \in listed.chains \ foreign
       /\ \A x \in passed' \ passed :
            ~ (x.token \in policy.tokens /\ x.pair \in policy.chains)]_allowlistVars

\* Enforcement is neither switched off by concurrent edits nor evaded by what a store serves.
AllowlistsHold == EnforcementStaysOn /\ AllowlistIsHonoured
=============================================================================
