-------------------------- MODULE FollowPublication --------------------------
(***************************************************************************)
(* Publishing the results of a cohort while it is played:                  *)
(* scripts/full_client_follow_publication.py polls an observer, has every  *)
(* completed attempt exported and backed up, composes a catalog and calls  *)
(* the driver scripts/full_client_vercel.py, which claims the package      *)
(* (scripts/full_client_publication.py) and deploys it.                    *)
(*                                                                         *)
(* The follower, the exporter, the driver and the driver's deploy command  *)
(* run in sessions of their own: killing one leaves those it started       *)
(* running.  A reply may be lost at every boundary, a deployment may be    *)
(* accepted long after it was asked for, and the follower is invoked again *)
(* and again on the same state until its deadline, which is never renewed. *)
(*                                                                         *)
(* A package is named by its content, so here it is its content: the       *)
(* outcomes of the cohort it shows, as the exporter found them one after   *)
(* the other (prepare_package).  What is deployed is the catalog composed  *)
(* around it (scripts/full_client_catalog.py).                             *)
(***************************************************************************)
EXTENDS Naturals, FiniteSets

CONSTANTS
    Members,     \* the members of the cohort (four in the code)
    None,        \* no package, no attempt
    Seeds,       \* the publications a configuration may import, one or none
    Archive,     \* the configuration names an archive of older results
    MaxOps,      \* MAX_PUBLICATIONS
    MaxPolls,    \* watch_seconds // POLL_SECONDS + 1
    MaxKills     \* bound: kills of the follower

ASSUME FollowAssumption ==
    /\ Members # {} /\ Archive \in BOOLEAN
    /\ Seeds \subseteq [Members -> {"pending", "completed", "failed"}]
    /\ \A s \in Seeds : \E a \in Members : s[a] = "completed"
    /\ {MaxOps, MaxPolls, MaxKills} \subseteq Nat

VARIABLES
    cohort,     \* status of every attempt
    closed,     \* the coordinator has closed the cohort
    seed,       \* the package the configuration imports, or None
    late,       \* the original deadline has passed
    me,         \* the follower: the step it is at
    st,         \* state.json
    folders,    \* operation- folders that exist
    op,         \* the files of the last operation
    exporter,   \* the exporter: its state, the rows it has, its reply
    receipts,   \* completion receipts of the exporter, by attempt
    runs,       \* history: exporter runs of the last operation
    pkg,        \* the publication files of every package
    driver,     \* the driver: step, package, result
    flight,     \* the catalog whose deploy command is under way
    deployed,   \* deployments the provider lists
    public,     \* what the public origin serves
    calls,      \* history: deploy commands issued, by package
    kills

world == <<cohort, closed, seed>>
export == <<exporter, receipts, runs>>
provider == <<flight, deployed, public, calls>>
delivery == <<pkg, driver, provider>>
followVars == <<world, late, me, st, folders, op, export, delivery, kills>>

-----------------------------------------------------------------------------
TERMINAL == {"completed", "failed", "recovered"}
Statuses == TERMINAL \cup {"pending", "recovering"}
Contents == [Members -> Statuses]
Signature(c) == [a \in Members |-> IF c[a] \in TERMINAL THEN c[a] ELSE "pending"]
Completed(c) == {a \in Members : c[a] = "completed"}

(* cohort() of the catalog: every member completed and verified            *)
Whole(c) == Completed(c) = Members

(* compose(): the cohort's rows, with the older results beside them until  *)
(* the cohort is whole                                                     *)
Catalog(c) == [rows |-> c, archive |-> Archive /\ ~Whole(c)]
Catalogs == {Catalog(c) : c \in Contents}

ASSUME NoneAssumption == None \notin Contents \cup Catalogs \cup Members

NoOp == [anchor |-> None, snapshot |-> FALSE, obs |-> None, started |-> FALSE,
         export |-> None, marker |-> FALSE, done |-> FALSE]

(* write_new() creates a file and then writes it: torn is that the next of *)
(* these files is there and not all of it.  A torn claim, and a torn       *)
(* marker, is read as what it is taken for here: a claim without a marker. *)
NoFiles == [claim |-> FALSE, marker |-> FALSE, proof |-> FALSE,
            complete |-> FALSE, torn |-> FALSE]

NoState == [made |-> "no", status |-> "watching", observed |-> None,
            term |-> FALSE, exports |-> {}, sig |-> None, ops |-> 0,
            cur |-> FALSE, polls |-> 0, seeded |-> FALSE]

Unread == [a \in Members |-> "unread"]
NoExport == [st |-> "idle", rows |-> Unread, reply |-> None]
Answer(c) == [st |-> "done", rows |-> Unread, reply |-> c]

NoDriver == [pc |-> "idle", pkg |-> None, res |-> "none"]

At(pc) == me = pc
Goto(pc) == me' = pc

(* stop(): the status is saved and the invocation is over. *)
Stop(status) == st' = [st EXCEPT !.status = status] /\ Goto("none")

-----------------------------------------------------------------------------
(* load() and import_seed() *)

MakeIntent ==
    /\ At("none") /\ st.made = "no"
    /\ st' = [st EXCEPT !.made = "intent"]
    /\ Goto("state")
    /\ UNCHANGED <<world, late, folders, op, export, delivery, kills>>

MakeState ==
    /\ At("state")
    /\ st' = [st EXCEPT !.made = "yes"]
    /\ Goto("seed")
    /\ UNCHANGED <<world, late, folders, op, export, delivery, kills>>

(* A folder that is not as a step left it needs a review: it is refused at *)
(* every invocation, and so are the exports of a seed that are there.      *)
Load ==
    /\ At("none") /\ st.made = "yes" /\ folders = st.ops
    /\ Goto(IF st.seeded THEN "loop" ELSE "seed")
    /\ UNCHANGED <<world, late, st, folders, op, export, delivery, kills>>

(* The exports of a seed are saved before it is marked imported.           *)
ImportSeed ==
    /\ At("seed") /\ seed # None
    /\ IF st.exports = {}
       THEN /\ st' = [st EXCEPT !.exports = Completed(seed), !.observed = seed,
                                !.sig = Signature(seed)]
            /\ Goto("seeded")
       ELSE UNCHANGED st /\ Goto("none")
    /\ UNCHANGED <<world, late, folders, op, export, delivery, kills>>

Seeded ==
    /\ \/ At("seeded")
       \/ At("seed") /\ seed = None
    /\ st' = [st EXCEPT !.seeded = TRUE]
    /\ Goto("loop")
    /\ UNCHANGED <<world, late, folders, op, export, delivery, kills>>

-----------------------------------------------------------------------------
(* run() *)

(* A completed invocation only checks its proofs again. *)
Recheck ==
    /\ At("loop") /\ st.status = "complete"
    /\ Goto("none")
    /\ UNCHANGED <<world, late, st, folders, op, export, delivery, kills>>

DeadlinePassed ==
    /\ At("loop") /\ st.status # "complete"
    /\ late \/ (~st.cur /\ st.polls >= MaxPolls)
    /\ Stop("unfinished")
    /\ UNCHANGED <<world, late, folders, op, export, delivery, kills>>

ResumeOperation ==
    /\ At("loop") /\ st.status # "complete" /\ ~late /\ st.cur
    /\ st' = [st EXCEPT !.status = "working"]
    /\ Goto(IF op.export = None THEN "operate" ELSE "exported")
    /\ UNCHANGED <<world, late, folders, op, export, delivery, kills>>

Observing == /\ At("loop") /\ st.status # "complete" /\ ~late
             /\ ~st.cur /\ st.polls < MaxPolls

Observe ==
    /\ Observing
    /\ st' = [st EXCEPT !.status = "watching", !.observed = cohort,
                        !.term = closed, !.polls = @ + 1]
    /\ Goto("decide")
    /\ UNCHANGED <<world, late, folders, op, export, delivery, kills>>

(* The observer fails, or answers with something else. *)
ObserveFails ==
    /\ Observing
    /\ Stop("blocked")
    /\ UNCHANGED <<world, late, folders, op, export, delivery, kills>>

Unexported == Completed(st.observed) \ st.exports
Changed == Signature(st.observed) # st.sig
Terminals == {a \in Members : st.observed[a] \in TERMINAL}

Begins(anchor, snapshot) ==
    /\ st.ops < MaxOps
    /\ folders' = folders + 1
    /\ op' = [NoOp EXCEPT !.anchor = anchor, !.snapshot = snapshot,
                          !.obs = st.observed]
    /\ runs' = 0
    /\ Goto("begin")
    /\ UNCHANGED <<world, late, st, exporter, receipts, delivery, kills>>

BeginExport ==
    /\ At("decide")
    /\ \E a \in Unexported : Begins(a, FALSE)

BeginSnapshot ==
    /\ At("decide") /\ Unexported = {} /\ Changed /\ Terminals # {}
    /\ \E a \in Completed(st.observed) : Begins(a, TRUE)

Begun ==
    /\ At("begin")
    /\ st' = [st EXCEPT !.ops = folders, !.cur = TRUE]
    /\ Goto("loop")
    /\ UNCHANGED <<world, late, folders, op, export, delivery, kills>>

(* Nothing completed to export with, or too many operations *)
Blocks ==
    /\ At("decide")
    /\ \/ Unexported = {} /\ Changed /\ Terminals # {} /\ Completed(st.observed) = {}
       \/ st.ops >= MaxOps /\ (Unexported # {} \/ (Changed /\ Terminals # {}))
    /\ Stop("blocked")
    /\ UNCHANGED <<world, late, folders, op, export, delivery, kills>>

Finish ==
    /\ At("decide") /\ Unexported = {} /\ ~Changed /\ st.term
    /\ Stop("complete")
    /\ UNCHANGED <<world, late, folders, op, export, delivery, kills>>

Wait ==
    /\ At("decide") /\ Unexported = {} /\ ~(Changed /\ Terminals # {})
    /\ Changed \/ ~st.term
    /\ Goto("loop")
    /\ UNCHANGED <<world, late, st, folders, op, export, delivery, kills>>

-----------------------------------------------------------------------------
(* operate(): export() *)

Uncertain == Stop("uncertain") /\ UNCHANGED op

(* The one receipt whose name the follower knows: of a completion *)
Receipted == ~op.snapshot /\ receipts[op.anchor] # None

(* The reply is gone: the exact completion receipt, or nothing             *)
Adopts(next) ==
    /\ Receipted
    /\ op' = [op EXCEPT !.export = receipts[op.anchor]]
    /\ Goto(next) /\ UNCHANGED st

(* export-started.json, before the exporter is called *)
StartExport ==
    /\ At("operate") /\ ~op.started
    /\ op' = [op EXCEPT !.started = TRUE]
    /\ Goto("export")
    /\ UNCHANGED <<world, late, st, folders, export, delivery, kills>>

CallExporter ==
    /\ At("export")
    /\ exporter' = [NoExport EXCEPT !.st = "running"]
    /\ runs' = IF runs = 0 THEN 1 ELSE 2
    /\ Goto("reply")
    /\ UNCHANGED <<world, late, st, folders, op, receipts, delivery, kills>>

Exported ==
    /\ At("reply") /\ exporter.st = "done" /\ exporter.reply # None
    /\ op' = [op EXCEPT !.export = exporter.reply]
    /\ exporter' = NoExport
    /\ Goto("exported")
    /\ UNCHANGED <<world, late, st, folders, receipts, runs, delivery, kills>>

(* The reply is lost, or its time is over and the exporter is stopped. *)
ExportLost ==
    /\ At("reply")
    /\ Adopts("exported") \/ (~Receipted /\ Uncertain)
    /\ exporter' = NoExport
    /\ UNCHANGED <<world, late, folders, receipts, runs, delivery, kills>>

(* A later invocation finds the export started. *)
ResumeExport ==
    /\ At("operate") /\ op.started
    /\ Adopts("exported") \/ (~Receipted /\ Uncertain)
    /\ UNCHANGED <<world, late, folders, export, delivery, kills>>

-----------------------------------------------------------------------------
(* operate(): the catalog and the publication *)

Keep ==
    /\ At("exported")
    /\ st' = [st EXCEPT !.exports = IF op.snapshot THEN @ ELSE @ \cup {op.anchor}]
    /\ Goto("check")
    /\ UNCHANGED <<world, late, folders, op, export, delivery, kills>>

(* A deferred operation counts as published. *)
DeferSigned ==                                                        \* variant
    /\ At("check") /\ ~(Completed(op.export) \subseteq st.exports)
    /\ st' = [st EXCEPT !.cur = FALSE, !.sig = Signature(op.obs), !.exports =
                        @ \cup Completed(op.export)]
    /\ Goto("loop")
    /\ UNCHANGED <<world, late, folders, op, export, delivery, kills>>

(* A sibling that was completed meanwhile is exported first. *)
Defer ==
    /\ At("check") /\ ~(Completed(op.export) \subseteq st.exports)
    /\ st' = [st EXCEPT !.cur = FALSE]
    /\ Goto("loop")
    /\ UNCHANGED <<world, late, folders, op, export, delivery, kills>>

(* The catalog's request and the catalog, made again as they were or not   *)
(* at all, then publication-started.json                                   *)
Compose ==
    /\ At("check") /\ Completed(op.export) \subseteq st.exports
    /\ op' = [op EXCEPT !.marker = TRUE]
    /\ Goto("publish")
    /\ UNCHANGED <<world, late, st, folders, export, delivery, kills>>

CallDriver ==
    /\ At("publish") /\ ~late /\ driver.pc = "idle"
    /\ driver' = [pc |-> "check", pkg |-> op.export, res |-> "none"]
    /\ Goto("result")
    /\ UNCHANGED <<world, late, st, folders, op, export, pkg, provider, kills>>

(* publication_proof, complete.json *)
Published ==
    /\ At("result") /\ driver.pc = "end" /\ driver.res = "published"
    /\ driver' = NoDriver
    /\ op' = [op EXCEPT !.done = TRUE]
    /\ Goto("done")
    /\ UNCHANGED <<world, late, st, folders, export, pkg, provider, kills>>

Done ==
    /\ At("done")
    /\ st' = [st EXCEPT !.cur = FALSE, !.sig = Signature(op.obs)]
    /\ Goto("loop")
    /\ UNCHANGED <<world, late, folders, op, export, delivery, kills>>

(* Another answer than published, none in time, or a driver of an earlier  *)
(* invocation that still holds the package's lock                          *)
PublishUncertain ==
    /\ \/ At("publish") /\ (late \/ driver.pc # "idle") /\ UNCHANGED driver
       \/ At("result") /\ ~(driver.pc = "end" /\ driver.res = "published")
          /\ driver' = NoDriver
    /\ Uncertain
    /\ UNCHANGED <<world, late, folders, export, pkg, provider, kills>>

(* The follower alone dies. *)
Kill ==
    /\ me # "none" /\ kills < MaxKills
    /\ kills' = kills + 1
    /\ Goto("none")
    /\ exporter' = IF exporter.st = "done" THEN NoExport ELSE exporter
    /\ driver' = IF driver.pc = "end" THEN NoDriver ELSE driver
    /\ UNCHANGED <<world, late, st, folders, op, receipts, runs, pkg, provider>>

Follower == \/ MakeIntent \/ MakeState \/ Load \/ ImportSeed \/ Seeded
            \/ Recheck \/ DeadlinePassed \/ ResumeOperation \/ Observe
            \/ BeginExport \/ BeginSnapshot \/ Begun \/ Blocks \/ Finish \/ Wait
            \/ StartExport \/ CallExporter \/ Exported \/ ResumeExport
            \/ Keep \/ Defer \/ Compose
            \/ CallDriver \/ Published \/ Done

-----------------------------------------------------------------------------
(* The exporter *)

(* project_member(): the journal of one member as it is now, while the     *)
(* others go on                                                            *)
Project ==
    /\ exporter.st = "running"
    /\ \E a \in Members :
           /\ exporter.rows[a] = "unread"
           /\ exporter' = [exporter EXCEPT !.rows[a] = cohort[a]]
    /\ UNCHANGED <<world, late, me, st, folders, op, receipts, runs, delivery, kills>>

(* The package is made of the rows; only a completion receipt has a name   *)
(* the follower knows.                                                     *)
Exports ==
    /\ exporter.st = "running" /\ exporter.rows \in Contents
    /\ exporter' = IF me = "reply" THEN Answer(exporter.rows) ELSE NoExport
    /\ receipts' = IF op.snapshot THEN receipts
                   ELSE [receipts EXCEPT ![op.anchor] = exporter.rows]
    /\ UNCHANGED <<world, late, me, st, folders, op, runs, delivery, kills>>

ExportFails ==
    /\ exporter.st = "running"
    /\ exporter' = IF me = "reply" THEN Answer(None) ELSE NoExport
    /\ UNCHANGED <<world, late, me, st, folders, op, receipts, runs, delivery, kills>>

-----------------------------------------------------------------------------
(* publish() of the driver, under the package's lock *)

D == driver.pkg
Files == pkg[D]
On(pc) == driver.pc = pc
Then(pc) == driver' = [driver EXCEPT !.pc = pc]
Returns(res) ==
    driver' = IF me = "result" THEN [driver EXCEPT !.pc = "end", !.res = res]
              ELSE NoDriver
Writes(file) == pkg' = [pkg EXCEPT ![D][file] = TRUE, ![D].torn = FALSE]
Creates == pkg' = [pkg EXCEPT ![D].torn = TRUE]
Rest == UNCHANGED <<world, late, me, st, folders, op, export, kills>>

(* find_deployment(): one deployment of exactly these bytes is listed.     *)
Listed == Catalog(D) \in deployed

(* verify_public(): every file the public origin serves is read back.      *)
Served == public = Catalog(D)

(* A submission without its answer is taken for one that failed. *)
CheckAgain ==                                                         \* variant
    /\ On("check")
    /\ IF Files.complete THEN Returns("published")
       ELSE IF Files.torn /\ Files.proof THEN Returns("uncertain")
       ELSE IF Files.marker /\ Listed THEN Then("find")
       ELSE IF Files.marker THEN Then("deploy")
       ELSE IF Files.claim THEN Returns("uncertain") ELSE Then("claim")
    /\ UNCHANGED <<pkg, provider>> /\ Rest

(* A marker without its proof is left to the operator. *)
CheckRefuses ==                                                       \* variant
    /\ On("check")
    /\ IF Files.marker \/ Files.claim
       THEN Returns(IF Files.complete THEN "published" ELSE "uncertain")
       ELSE Then("claim")
    /\ UNCHANGED <<pkg, provider>> /\ Rest

(* A torn receipt cannot be read, here or in publication_state().          *)
Check ==
    /\ On("check")
    /\ IF Files.marker
       THEN IF Files.complete THEN Returns("published")
            ELSE IF Files.torn /\ Files.proof THEN Returns("uncertain")
            ELSE Then("find")
       ELSE IF Files.claim THEN Returns("uncertain") ELSE Then("claim")
    /\ UNCHANGED <<pkg, provider>> /\ Rest

(* claim_publication(): exclusive, and for good *)
Claim ==
    /\ On("claim")
    /\ Writes("claim")
    /\ Then("marker")
    /\ UNCHANGED provider /\ Rest

(* vercel-submission.json, before the only deploy command *)
SubmitMarker ==
    /\ On("marker")
    /\ Writes("marker")
    /\ Then("deploy")
    /\ UNCHANGED provider /\ Rest

(* Whatever it answers, or not in time, the listing decides. *)
Deploy ==
    /\ On("deploy")
    /\ flight' = Catalog(D)
    /\ calls' = [calls EXCEPT ![D] = IF @ = 0 THEN 1 ELSE 2]
    /\ Then("find")
    /\ UNCHANGED <<pkg, deployed, public>> /\ Rest

(* find_deployment, verify_public; the proof is created, or is there and   *)
(* can be read                                                             *)
Find ==
    /\ On("find") /\ Listed /\ Served
    /\ \/ Files.proof /\ Then("record") /\ UNCHANGED pkg
       \/ ~Files.proof /\ ~Files.torn /\ Then("prove") /\ Creates
    /\ UNCHANGED provider /\ Rest

Prove ==
    /\ On("prove")
    /\ Writes("proof")
    /\ Then("record")
    /\ UNCHANGED provider /\ Rest

(* record_deployment() *)
Record ==
    /\ On("record") /\ Files.claim
    /\ Creates
    /\ Then("complete")
    /\ UNCHANGED provider /\ Rest

Complete ==
    /\ On("complete")
    /\ Writes("complete")
    /\ Returns("published")
    /\ UNCHANGED provider /\ Rest

(* No match, an incomplete list, other bytes, no time, or a file that      *)
(* cannot be read or written                                               *)
NotFound ==
    /\ driver.pc \notin {"idle", "end"}
    /\ Returns("uncertain")
    /\ UNCHANGED <<pkg, provider>> /\ Rest

Driver == \/ Check \/ Claim \/ SubmitMarker \/ Deploy
          \/ Find \/ Prove \/ Record \/ Complete

-----------------------------------------------------------------------------
(* The provider, the cohort and the clock *)

Accepts ==
    /\ flight # None
    /\ deployed' = deployed \cup {flight} /\ public' = flight
    /\ flight' = None
    /\ UNCHANGED <<world, late, me, st, folders, op, export, pkg, driver, calls, kills>>

Drops ==
    /\ flight # None
    /\ flight' = None
    /\ UNCHANGED <<world, late, me, st, folders, op, export, pkg, driver, deployed,
                   public, calls, kills>>

Plays ==
    /\ \E a \in Members :
           \/ /\ cohort[a] = "pending"
              /\ \E s \in {"completed", "failed"} : cohort' = [cohort EXCEPT ![a] = s]
           \/ cohort[a] = "failed" /\ cohort' = [cohort EXCEPT ![a] = "recovering"]
           \/ cohort[a] = "recovering" /\ cohort' = [cohort EXCEPT ![a] = "recovered"]
    /\ ~closed
    /\ UNCHANGED <<closed, seed, late, me, st, folders, op, export, delivery, kills>>

Closes ==
    /\ ~closed /\ \A a \in Members : cohort[a] \in TERMINAL
    /\ closed' = TRUE
    /\ UNCHANGED <<cohort, seed, late, me, st, folders, op, export, delivery, kills>>

TimePasses ==
    /\ ~late /\ late' = TRUE
    /\ UNCHANGED <<world, me, st, folders, op, export, delivery, kills>>

Environment == Accepts \/ Drops \/ Plays \/ Closes \/ TimePasses

FollowNext ==
    \/ Follower \/ ObserveFails \/ ExportLost \/ PublishUncertain \/ Kill
    \/ Project \/ Exports \/ ExportFails \/ Driver \/ NotFound \/ Environment

(* A seed is an earlier publication of the cohort, proved on import. *)
FollowInit ==
    /\ \E s \in {[a \in Members |-> "pending"]} \cup Seeds :
           /\ cohort = s
           /\ seed = IF Completed(s) = {} THEN None ELSE s
           /\ pkg = [c \in Contents |-> IF c = seed
                        THEN [f \in DOMAIN NoFiles |-> f # "torn"] ELSE NoFiles]
           /\ public = IF seed = None THEN None ELSE Catalog(seed)
           /\ deployed = {public} \ {None}
    /\ closed = FALSE /\ late = FALSE
    /\ me = "none" /\ st = NoState /\ folders = 0 /\ op = NoOp
    /\ exporter = NoExport
    /\ receipts = [a \in Members |-> None] /\ runs = 0
    /\ driver = NoDriver /\ flight = None
    /\ calls = [c \in Contents |-> 0]
    /\ kills = 0

(* Somebody invokes the follower again until it is complete; every wait of *)
(* its has an end; what it starts runs; a driver is not out of time every  *)
(* time, and the listing of the provider works time and again.             *)
Fairness == /\ WF_followVars(Follower \/ ExportLost \/ PublishUncertain)
            /\ WF_followVars(Project \/ Exports)
            /\ WF_followVars(Driver) /\ WF_followVars(Accepts)
            /\ SF_followVars(Check) /\ SF_followVars(Find) /\ SF_followVars(Record)

FollowSpec == FollowInit /\ [][FollowNext]_followVars /\ Fairness

-----------------------------------------------------------------------------
FollowTypes ==
    /\ cohort \in Contents /\ closed \in BOOLEAN /\ late \in BOOLEAN
    /\ {public, flight} \subseteq Catalogs \cup {None}
    /\ {seed, op.export, op.obs, exporter.reply, st.observed,
        st.sig, driver.pkg} \subseteq Contents \cup {None}
    /\ st.made \in {"no", "intent", "yes"} /\ st.exports \subseteq Members
    /\ st.status \in {"watching", "working", "blocked", "uncertain", "unfinished", "complete"}
    /\ st.ops \in 0 .. MaxOps /\ st.polls \in 0 .. MaxPolls
    /\ folders \in st.ops .. st.ops + 1
    /\ receipts \in [Members -> Contents \cup {None}]
    /\ pkg \in [Contents -> [DOMAIN NoFiles -> BOOLEAN]]
    /\ deployed \subseteq Catalogs /\ runs \in 0 .. 2
    /\ calls \in [Contents -> 0 .. 2] /\ kills \in 0 .. MaxKills

(* The files of a publication are written in an order that tells whoever   *)
(* comes next what may have been done: nothing was sent without a claim    *)
(* and a marker, nothing is complete that was not proved public, and an    *)
(* operation is done only with the package it composed complete.           *)
InOrder ==
    /\ \A c \in Contents :
           /\ calls[c] > 0 => pkg[c].marker
           /\ pkg[c].marker => pkg[c].claim
           /\ pkg[c].complete => pkg[c].proof
           /\ pkg[c].proof => Catalog(c) \in deployed
    /\ \A d \in (deployed \cup {flight}) \ {None} : pkg[d.rows].marker
    /\ op.done => op.marker /\ pkg[op.export].complete
    /\ op.marker => op.export # None
    /\ op.export # None => op.started

(* However often the follower and its driver are killed, time out or are   *)
(* invoked again, a package is sent to the provider at most once, and at   *)
(* most one package is sent and not complete: that of the current          *)
(* operation.                                                              *)
DeployedOnce ==
    \A c \in Contents :
        /\ calls[c] <= 1
        /\ calls[c] = 1 /\ ~pkg[c].complete => st.cur /\ op.export = c

Shows(c, o) ==
    \A a \in Members : CASE o[a] = "completed" -> c[a] = "completed"
                         [] o[a] = "failed"    -> c[a] \in {"failed", "recovering", "recovered"}
                         [] o[a] = "recovered" -> c[a] = "recovered"
                         [] OTHER              -> TRUE

(* The exporter, which costs a backup and a recording, is run at most once *)
(* for an operation even when its reply is lost, and the package that is   *)
(* adopted shows everything the operation was begun for.                   *)
ExportedOnce ==
    /\ runs <= 1
    /\ op.export # None => op.export[op.anchor] = "completed"
                           /\ Shows(op.export, op.obs)

(* No completed attempt is public before it is exported and backed up by a *)
(* receipt of its own, though the exporter packs whatever was completed    *)
(* while it ran.                                                           *)
BackedUpFirst ==
    public # None => \/ public.rows = seed
                     \/ Completed(public.rows) \subseteq st.exports

(* docs/FULL_CLIENT_PUBLICATION_FOLLOW.md: "`complete` means the pinned    *)
(* cohort is terminal and its latest observed outcomes were published".    *)
CompleteIsPublic ==
    st.status = "complete" =>
        /\ closed /\ cohort = st.observed
        /\ public # None /\ public.rows = cohort

(* The driver was ended half way through the proof or the receipt.         *)
Cut(c) == pkg[c].torn /\ ~(driver.pkg = c /\ driver.pc \in {"prove", "complete"})

(* A deployment the provider accepted, whoever was killed and whichever    *)
(* answer was lost meanwhile, is found and recorded before the deadline,   *)
(* unless its driver was ended in the middle of a file of the record: that *)
(* file can be read no more, and is never written again.                   *)
DeploymentsReconciled ==
    (\E d \in deployed : ~pkg[d.rows].complete)
        ~> (late \/ \A d \in deployed : pkg[d.rows].complete \/ Cut(d.rows))

(* What is said of a publication, by its files, its receipts and the       *)
(* follower's status, is so.                                               *)
FollowInv == FollowTypes /\ InOrder /\ BackedUpFirst /\ CompleteIsPublic

(* A publication costs one export and one deployment.                      *)
PublishedOnce == DeployedOnce /\ ExportedOnce

=============================================================================
