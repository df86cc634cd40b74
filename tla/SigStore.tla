------------------------------ MODULE SigStore ------------------------------
(***************************************************************************)
(* One bucket of signatures of one submission, from the validators' POSTs  *)
(* to the calldata a keeper builds from it.                                *)
(*                                                                         *)
(* A submission keeps three buckets (transfer, cancel, refund) with the    *)
(* same rules and separate digests.  Two backings serve them.  Postgres,   *)
(* behind the sig-store service, keeps one row per signature, and the      *)
(* module follows one bucket, `kind`, of it, with posts signed over        *)
(* another bucket's digest among its inputs.  The directory of one         *)
(* validator process keeps one file per submission, all buckets in it,     *)
(* which the scan task and the refund task of that process share.  Both    *)
(* authenticate a post, canonicalise it, and count and insert under a      *)
(* lock.  A keeper reads a bucket from a store it does not trust, filters  *)
(* it by the destination gate's validator set, of which it holds a memo    *)
(* that a governance change makes stale, and submits what is left.         *)
(*                                                                         *)
(* An address is a number, its order the order of the addresses.           *)
(***************************************************************************)
EXTENDS Naturals, FiniteSets

CONSTANTS
    Validators,   \* addresses with a validator key, the configured signers
    Strangers,    \* other addresses that can sign: throwaway keys
    Founders,     \* the gate's [set, threshold] at the start
    Successors,   \* its [set, threshold] after a governance change
    Kinds,        \* the three signing domains
    MAX_SIGNATURES_PER_SUBMISSION

Address == Validators \cup Strangers

ASSUME AddressAssumption ==
    /\ Address \subseteq Nat /\ IsFiniteSet(Address)
    /\ Validators \cap Strangers = {}
    /\ \A g \in {Founders, Successors} : g.set \subseteq Validators /\ g.threshold \in 1 .. Cardinality(g.set)
    /\ MAX_SIGNATURES_PER_SUBMISSION \in Nat

\* SignerPolicy::parse refuses a larger set.
ASSUME PolicyAssumption == Cardinality(Validators) <= MAX_SIGNATURES_PER_SUBMISSION

VARIABLES
    site,     \* deployment: [backing, enforced]; enforced is SIG_STORE_VALIDATOR_SIGNERS set
    kind,     \* the bucket followed
    row,      \* the submission's parameters, or NoRow
    bucket,   \* its signatures; in Postgres, those of the bucket `kind`
    holder,   \* the task that holds the row lock (or the file write lock)
    job,      \* per task, the POST being served
    gate,     \* [set, threshold]: the gate's validator set
    accepted, \* has the gate taken the calldata?
    view      \* the keeper's GateView: [count, threshold, members]

vars == <<site, kind, row, bucket, holder, job, gate, accepted, view>>

Nobody == 0          \* the label of a token without one

\* The POSTs of an address, and the loops of the process that owns a directory.
Task == ({"post"} \X Address) \cup ({"loop"} \X Kinds)
NoTask == <<"none">>

\* A stored signature is a record: its bucket (kind), its label (signer), the key
\* that made it, the digest it is over, and its form: low s with v in {27,28},
\* or another encoding.
Form == {"canonical", "other"}

Idle == [step |-> "idle"]

signers(b) == {s.signer : s \in b}

\* A record as posted.  The submission id is the hash of the parameters, so the
\* id followed here belongs to the "real" ones; `token` is not hashed into it.
Record == [params: {"real", "forged"}, token: {"none", "right", "wrong"}]
NoRow == [params |-> "none", token |-> "none"]
stored == row # NoRow

-----------------------------------------------------------------------------
(* Authentication.                                                         *)

canonical_submission_id(rec) == rec.params

\* The asset hash commits to the token; a record may leave the token out.
verify_token_binding(rec) == rec.token \in {"none", "right"}

verify_binding(rec) == canonical_submission_id(rec) = "real" /\ verify_token_binding(rec)

same_params(r, rec) == r.params = rec.params

\* The signature recovers to its label over this digest.
verify_signature(digest, s) == s.key = s.signer /\ s.over = digest

verify_attestation(k, s) == verify_signature(k, s)

\* Re-encoding keeps the signer: s and n - s recover to the same address.
canonical_signature(s) == [s EXCEPT !.form = "canonical"]

\* H7-3: with a validator set configured a labelled token posts for its own
\* address; a token without a label (0) posts for any member.
bound(label) == IF label = Nobody THEN Validators ELSE {label}

permits(label, signer) == site.enforced => signer \in bound(label)

-----------------------------------------------------------------------------
(* Writing.                                                                *)

\* GateView::load: the gate's parameters, and nothing known of its members.
load == [count |-> Cardinality(gate.set), threshold |-> gate.threshold,
         members |-> [a \in Address |-> "unread"]]

Bucket_Before == {b \in SUBSET {[kind |-> kind, signer |-> a, key |-> a, over |-> kind, form |-> f] :
                                  a \in Address, f \in Form} :
                    /\ Cardinality(signers(b)) = Cardinality(b)
                    /\ Cardinality(b) <= MAX_SIGNATURES_PER_SUBMISSION
                    /\ \A s \in b : s.form = "other" => s.signer \in Validators}

\* A database that served the bridge before the signer policy may hold rows of
\* throwaway keys, and rows from before the canonical form.
Init ==
    /\ site \in {[backing |-> "db", enforced |-> TRUE], [backing |-> "db", enforced |-> FALSE],
                 [backing |-> "file", enforced |-> FALSE]}
    /\ kind \in Kinds
    /\ row \in {NoRow} \cup {rec \in Record : verify_binding(rec)}
    /\ bucket \in Bucket_Before
    /\ bucket # {} => stored /\ site.enforced
    /\ holder = NoTask
    /\ job = [t \in Task |-> Idle]
    /\ gate = Founders
    /\ accepted = FALSE
    /\ view = load

\* What a validator sends along: the record of the Sent event with a transfer
\* signature, and nothing beyond the id with an attestation.
recordFor(k) == [params |-> "real", token |-> IF k = "transfer" THEN "right" ELSE "none"]

\* The first record makes the row; a later one only fills in a missing token.
upserted(rec) ==
    IF row = NoRow THEN rec
    ELSE IF row.token = "none" THEN [row EXCEPT !.token = rec.token] ELSE row

\* The indexer inserts the row, or its token, from the chain's Sent event.
observe_submission ==
    /\ site.backing = "db"
    /\ row' = upserted(recordFor("transfer"))
    /\ row' # row
    /\ UNCHANGED <<site, kind, bucket, holder, job, gate, accepted, view>>

\* A POST: the checks before the transaction.  A post that fails one changes
\* nothing.
accept(t, s, rec) ==
    /\ job[t] = Idle
    /\ job' = [job EXCEPT ![t] = [step |-> "begun", sig |-> canonical_signature(s), rec |-> rec]]
    /\ UNCHANGED <<site, kind, row, bucket, holder, gate, accepted, view>>

\* A transfer signature brings the whole record, whose id is recomputed.
post_submission(t, s, rec) ==
    /\ s.kind = "transfer"
    /\ verify_binding(rec) /\ verify_signature("transfer", s)
    /\ accept(t, s, rec)

\* An attestation needs the record to be there.
post_attestation(t, s) ==
    /\ s.kind # "transfer" /\ stored
    /\ verify_attestation(s.kind, s)
    /\ accept(t, s, recordFor(s.kind))

post(t, s, rec) == post_submission(t, s, rec) \/ post_attestation(t, s)

\* An honest validator posts its own signature, with the token bound to it,
\* until the store has it.
validator_post(a) ==
    /\ site.backing = "db" /\ permits(a, a)
    /\ a \notin signers(bucket)
    /\ \E f \in Form : post(<<"post", a>>, [kind |-> kind, signer |-> a, key |-> a, over |-> kind, form |-> f],
                            recordFor(kind))

\* A holder of some Sign token posts: a throwaway key's signature, one under
\* another's label, or a validator's signature over another digest.
other_post(a) ==
    /\ site.backing = "db"
    /\ \E label \in {Nobody} \cup Validators, signer \in Address, over \in Kinds, rec \in Record \ {recordFor("transfer")} :
         \E key \in {a} \cup (IF over # kind THEN {signer} ELSE {}) :
           /\ permits(label, signer)
           /\ post(<<"post", a>>, [kind |-> kind, signer |-> signer, key |-> key, over |-> over, form |-> "canonical"],
                   rec)

\* A loop of the process that owns the directory stores its signature.
upsert_file(k) ==
    /\ site.backing = "file"
    /\ \A s \in bucket : s.kind # k
    /\ LET me == CHOOSE a \in Validators : TRUE
       IN  post(<<"loop", k>>, [kind |-> k, signer |-> me, key |-> me, over |-> k, form |-> "canonical"],
                recordFor(k))

row_lock_free_Always == TRUE

\* SELECT ... FOR UPDATE on the submission's row.
row_lock_free == holder = NoTask

write_lock_free_Always == TRUE

\* The write lock of the directory.
write_lock_free == holder = NoTask

sameKind(b, s) == {t \in b : t.kind = s.kind}

push_capped(b, s) ==
    \/ s.signer \in signers(sameKind(b, s))
    \/ Cardinality(sameKind(b, s)) < MAX_SIGNATURES_PER_SUBMISSION

enforce_signature_cap_Everyone(b, s) == push_capped(b, s)

\* A configured validator is never refused; a signer already there is a no-op.
enforce_signature_cap(b, s) == (site.enforced /\ s.signer \in Validators) \/ push_capped(b, s)

\* Insert the row if there is none, take its lock and count, or read the file;
\* for other parameters than the stored ones, or over the cap, the write is
\* given up.
count(t) ==
    /\ job[t].step = "begun"
    /\ IF site.backing = "db" THEN row_lock_free ELSE write_lock_free
    /\ LET s == job[t].sig
           admitted == IF site.backing = "db" THEN enforce_signature_cap(bucket, s)
                                              ELSE push_capped(bucket, s)
       IN  IF admitted /\ (stored => same_params(row, job[t].rec))
           THEN /\ holder' = t
                /\ job' = [job EXCEPT ![t] = [step |-> "counted", sig |-> s, seen |-> bucket]]
                /\ row' = upserted(job[t].rec)
           ELSE /\ job' = [job EXCEPT ![t] = Idle]
                /\ UNCHANGED <<holder, row>>
    /\ UNCHANGED <<site, kind, bucket, gate, accepted, view>>

merged(b, s) == IF s.signer \in signers(sameKind(b, s)) THEN b ELSE b \cup {s}

\* Commit.  Postgres inserts one row, ON CONFLICT DO NOTHING; the file store
\* writes the record it read back with the signature added.
commit(t) ==
    /\ job[t].step = "counted"
    /\ bucket' = merged(IF site.backing = "db" THEN bucket ELSE job[t].seen, job[t].sig)
    /\ holder' = NoTask
    /\ job' = [job EXCEPT ![t] = Idle]
    /\ UNCHANGED <<site, kind, row, gate, accepted, view>>

-----------------------------------------------------------------------------
(* The keeper and the gate.                                                *)

\* Governance replaces the gate's validator set.
rotate ==
    /\ gate = Founders
    /\ gate' = Successors
    /\ UNCHANGED <<site, kind, row, bucket, holder, job, accepted, view>>

\* GateView::refresh_if_stale: the parameters again, and an empty memo.
refresh ==
    /\ view' = load
    /\ UNCHANGED <<site, kind, row, bucket, holder, job, gate, accepted>>

\* The rows that recover to their label over this digest, one per address.
authenticate_signatures(rows) == {s \in rows : verify_attestation(kind, s)}

isValidator(a) == IF a \in gate.set THEN "member" ELSE "stranger"

\* isValidator, for the addresses the memo does not know and the node answers.
resolve(rows, mute, memo) ==
    [a \in Address |->
       IF memo[a] = "unread" /\ a \in signers(rows) \ mute THEN isValidator(a) ELSE memo[a]]

believed(rows, memo) == {a \in signers(rows) : memo[a] = "member"}

\* More members than the gate has validators: ask again about every address
\* whose answer came from the memo.
reread(rows, mute, memo, fresh) ==
    [a \in Address |-> IF a \in signers(rows) \ (mute \cup fresh) /\ memo[a] # "unread"
                       THEN isValidator(a) ELSE memo[a]]

\* The `n` smallest of `set`, those of `first` before the others.
truncated(set, first, n) ==
    LET rank(a) == Cardinality({b \in set : \/ b \in first /\ a \notin first
                                            \/ (b \in first <=> a \in first) /\ b < a})
    IN  IF Cardinality(set) <= n THEN set ELSE {a \in set : rank(a) < n}

\* What member_signatures reads and keeps: the memo afterwards and the members
\* that reach the calldata.
member_signatures(rows, mute) ==
    LET unread == {a \in signers(rows) : view.members[a] = "unread"}
        once == resolve(rows, mute, view.members)
        over == Cardinality(believed(rows, once)) > view.count
        memo == IF over THEN reread(rows, mute, once, unread) ELSE once
        fresh == IF over THEN signers(rows) \ mute ELSE unread \ mute
    IN  [memo |-> memo, kept |-> truncated(believed(rows, memo), fresh, view.count)]

\* Each in the form the gate accepts, one per signer, in ascending order: the
\* order is a sort of distinct addresses and stays out of the model.
sorted_signatures(sigs) == {canonical_signature(s) : s \in sigs}

\* Gate._verifySignatures: no more entries than validators, each recovered, in
\* strictly ascending order; the entries of others than validators do not
\* count.  An entry that recovers to another address than the keeper sorted it
\* by is taken to break the order.
verifySignatures(calldata) ==
    /\ Cardinality(calldata) <= Cardinality(gate.set)
    /\ \A s \in calldata : s.form = "canonical" /\ s.over = kind /\ s.key = s.signer
    /\ Cardinality({s.key : s \in calldata} \cap gate.set) >= gate.threshold

\* Rows a store that is not trusted may serve besides what it was given.
Served ==
    LET mislabelled == {[kind |-> kind, signer |-> a, key |-> b, over |-> kind, form |-> "canonical"] :
                          a \in Validators, b \in Strangers}
    IN  {bucket \cup {s} : s \in mislabelled}

\* One tick over this submission: read, filter, submit.  `mute` are the
\* addresses whose isValidator read fails in this tick.  The gate recomputes
\* the id from the calldata, and a refund names the token.
tick(rows, mute) ==
    /\ site.backing = "db" /\ stored /\ ~accepted
    /\ LET authentic == authenticate_signatures(rows)
           found == member_signatures(authentic, mute)
           calldata == sorted_signatures({s \in authentic : s.signer \in found.kept})
       IN  /\ view' = [view EXCEPT !.members = found.memo]
           /\ accepted' = /\ Cardinality(calldata) >= view.threshold
                            /\ row.params = "real" /\ (kind = "refund" => row.token = "right")
                            /\ verifySignatures(calldata)
    /\ UNCHANGED <<site, kind, row, bucket, holder, job, gate>>

\* A tick in which every read succeeds and the store adds nothing.
QuietTick == tick(bucket, {})

KeeperTick == QuietTick \/ (\E rows \in Served : tick(rows, {})) \/ (\E a \in Address : tick(bucket, {a}))

Next ==
    \/ observe_submission
    \/ \E a \in Validators : validator_post(a)
    \/ \E a \in Strangers : other_post(a)
    \/ \E k \in Kinds : upsert_file(k)
    \/ \E t \in Task : count(t) \/ commit(t)
    \/ rotate
    \/ refresh
    \/ KeeperTick

Spec == Init /\ [][Next]_vars

\* Every task runs on; an honest validator retries; a row lock is granted to
\* every waiter in turn; the indexer and the keeper's loops keep ticking, and
\* not every tick meets a failing read or a lying store.
Fairness ==
    /\ WF_vars(observe_submission)
    /\ WF_vars(\E t \in Task : commit(t))
    /\ \A a \in Validators : WF_vars(validator_post(a)) /\ SF_vars(count(<<"post", a>>))
    /\ WF_vars(refresh /\ view' # view) /\ SF_vars(QuietTick)

LiveSpec == Spec /\ Fairness

-----------------------------------------------------------------------------
(* Properties.                                                             *)

\* Those of one kind that the cap is for.
Capped(k) == {s \in bucket : s.kind = k /\ ~ (site.enforced /\ s.signer \in Validators)}

\* store.rs 229-239, bridge-db 657-674.  However the writers interleave,
\* a bucket holds at most the cap, the configured validators not counted.
BucketIsBounded == \A k \in Kinds : Cardinality(Capped(k)) <= MAX_SIGNATURES_PER_SUBMISSION

\* store.rs 526-587, backend.rs 146-160.  No write loses or replaces a signature
\* an earlier write of another task stored.
NoSignatureIsLost == [][bucket \subseteq bucket']_bucket

\* sig-store 118-123, keeper 1837-2010.  With the validator set configured, the
\* validators' signatures reach the gate in a form it accepts: neither what
\* strangers stored before, nor rows that are not authentic, nor an encoding
\* the gate refuses, nor a stale memo of the validator set holds them up.
HonestQuorumIsAccepted == site.enforced ~> accepted

\* Concurrent writers of one bucket neither overfill it nor overwrite each other.
BucketIsSound == []BucketIsBounded /\ NoSignatureIsLost
=============================================================================
