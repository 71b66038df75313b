--------------------------- MODULE Proposals_proofs ---------------------------
(***************************************************************************)
(* Theorems about Proposals, for every flat, rule book and vote settings,  *)
(* every set of drafts and edits, and any number of requests in flight.    *)
(***************************************************************************)
EXTENDS Proposals, FiniteSetTheorems, TLAPS

-----------------------------------------------------------------------------
(* What a request in flight holds.                                         *)

OnProposal == {"edit", "submit", "vote", "approve", "reject", "extend", "freeze",
               "cancel", "force_merge"}

RequestType ==
  [op : {"idle", "create", "rollback"} \cup OnProposal, by : Members \cup {None},
   p : Proposals \cup {None}, stale : BOOLEAN, draft : DraftType \cup {None},
   flag : BOOLEAN, choice : Choices \cup {None}, prior : Choices \cup {None},
   rule : Rules \cup {None}, cached : RowType \cup {None}, version : SnapshotType \cup {None}]

\* The statuses in which a handler lets its request through.
Fits(op, s) ==
  /\ op \in {"edit", "submit"} => s = "draft"
  /\ op = "approve" => s = "pending_review"
  /\ op = "reject" => s \in {"draft", "pending_review"}
  /\ op = "extend" => s = "voting"
  /\ op = "cancel" => s \in {"draft", "pending_review", "voting"}
  /\ op = "force_merge" => s \in {"pending_review", "voting"}

\* A request works on a proposal that exists; while its copy of the row is
\* the current one, the proposal is where the handler found it.
Holds(q) ==
  /\ q.op \in OnProposal => /\ q.p \in Proposals
                            /\ status[q.p] # "absent"
                            /\ ~q.stale => Fits(q.op, status[q.p])
  /\ q.op = "create" => /\ q.draft \in Drafts
                        /\ q.draft.type # "new_rule" => rule[q.draft.target] \in RowType
  /\ q.op = "edit" => /\ q.draft \in DraftType
                      /\ q.draft.type = draft[q.p].type /\ q.draft.target = draft[q.p].target
                      /\ q.draft.type = "new_rule" => q.draft.text # None
  /\ q.op = "vote" => q.by \in Members /\ q.choice \in Choices
  /\ q.op = "force_merge" /\ draft[q.p].type # "new_rule" => q.cached \in RowType
  /\ q.op = "rollback" => /\ q.rule \in Rules /\ rule[q.rule] \in RowType
                          /\ q.cached \in RowType /\ q.version \in SnapshotType

\* Every proposal can be merged, and a rule that has versions exists.
BookOK ==
  /\ \A p \in Proposals : status[p] # "absent" =>
       /\ draft[p] \in DraftType
       /\ draft[p].type = "new_rule" => draft[p].text # None
       /\ draft[p].type # "new_rule" => draft[p].target \in Rules /\ rule[draft[p].target] \in RowType
  /\ \A u \in Rules : history[u] # <<>> => rule[u] \in RowType

TypeInv ==
  /\ TypeOK
  /\ req \in [Requests -> RequestType]
  /\ \A r \in Requests : Holds(req[r])
  /\ BookOK

-----------------------------------------------------------------------------
(* Rows of the rule book.                                                  *)

LEMMA IdleType == Idle \in RequestType /\ Idle.op = "idle"
  BY DEF Idle, RequestType

\* The mixture of two rows that a stale UPDATE leaves is a row.
LEMMA WrittenType ==
  ASSUME NEW live \in RowType, NEW cached \in RowType, NEW wanted \in RowType
  PROVE  Written(live, cached, wanted) \in RowType
  BY DEF Written, RowType

LEMMA AmendedType ==
  ASSUME NEW d \in DraftType, NEW row \in RowType,
         d.type # "delete_rule" /\ d.amount # None => d.amount >= 0
  PROVE  Amended(d, row) \in RowType
<1>1. CASE d.type = "delete_rule"
  BY <1>1 DEF Amended, RowType
<1>2. CASE d.type # "delete_rule"
  <2> DEFINE text   == IF d.text # None THEN d.text ELSE row.text
             amount == IF d.amount # None THEN d.amount ELSE row.amount
  <2>1. text \in Texts /\ amount \in Nat
    BY <1>2 DEF DraftType, RowType
  <2>2. Amended(d, row) = [row EXCEPT !.text = text, !.amount = amount]
    BY <1>2 DEF Amended, RowType
  <2> HIDE DEF text, amount
  <2> QED
    BY <2>1, <2>2 DEF RowType
<1> QED
  BY <1>1, <1>2

LEMMA SnapshotFits ==
  ASSUME NEW row \in RowType, NEW a \in BOOLEAN, NEW p \in Proposals \cup {None}
  PROVE  Snapshot(row, a, p) \in SnapshotType /\ Snapshot(row, a, p).proposal = p
  BY DEF Snapshot, SnapshotType, RowType

\* Publishing a row and its snapshot keeps every row of the book a row.
LEMMA PublishType ==
  ASSUME TypeOK, NEW u \in Rules, NEW row \in RowType, NEW snapshot \in SnapshotType,
         Publish(u, row, snapshot)
  PROVE  /\ rule' \in [Rules -> RowType \cup {None}]
         /\ history' \in [Rules -> Seq(SnapshotType)]
         /\ \A x \in Rules : rule[x] \in RowType => rule'[x] \in RowType
         /\ (\A x \in Rules : history[x] # <<>> => rule[x] \in RowType)
              => (\A x \in Rules : history'[x] # <<>> => rule'[x] \in RowType)
<1>1. Append(history[u], snapshot) \in Seq(SnapshotType)
  BY DEF TypeOK
<1>2. history' \in [Rules -> Seq(SnapshotType)] /\ rule' \in [Rules -> RowType \cup {None}]
  BY <1>1 DEF Publish, TypeOK
<1>3. \A x \in Rules : /\ rule'[x] = IF x = u THEN row ELSE rule[x]
                       /\ x # u => history'[x] = history[x]
  BY DEF Publish, TypeOK
<1> QED
  BY <1>2, <1>3

\* A merge publishes one row, with a snapshot that names the proposal.
LEMMA MergeType ==
  ASSUME TypeInv, NEW p \in Proposals, status[p] # "absent", NEW cached, Merge(p, cached),
         draft[p].type # "new_rule" => cached \in RowType
  PROVE  \E u \in Rules, row \in RowType, snapshot \in SnapshotType :
           Publish(u, row, snapshot) /\ snapshot.proposal = p
<1> DEFINE d == draft[p]
<1>1. d \in DraftType /\ (d.type # "delete_rule" /\ d.amount # None => d.amount >= 0)
  BY DEF TypeInv, BookOK, Merge, Mergeable
<1>2. CASE MergeNew(p)
  <2> DEFINE row == [text |-> d.text, amount |-> AmountOf(d), active |-> TRUE]
  <2>1. d.type = "new_rule" /\ d.text \in Texts /\ AmountOf(d) \in Nat
    BY <1>1, <1>2 DEF MergeNew, DraftType, AmountOf, TypeInv, BookOK
  <2>2. row \in RowType
    BY <2>1 DEF RowType
  <2>3. \E u \in Rules : Publish(u, row, Snapshot(row, TRUE, p))
    BY <1>2 DEF MergeNew
  <2> HIDE DEF row
  <2> QED
    BY <2>2, <2>3, SnapshotFits
<1>3. CASE MergeChange(p, cached)
  <2> DEFINE wanted == Amended(d, cached)
  <2>1. cached \in RowType /\ d.target \in Rules /\ rule[d.target] \in RowType
    BY <1>3 DEF MergeChange, TypeInv, BookOK
  <2>2. wanted \in RowType
    BY <1>1, <2>1, AmendedType
  <2>3. Written(rule[d.target], cached, wanted) \in RowType
    BY <2>1, <2>2, WrittenType
  <2>4. Publish(d.target, Written(rule[d.target], cached, wanted),
                Snapshot(wanted, d.type = "modify_rule", p))
    BY <1>3 DEF MergeChange
  <2> HIDE DEF wanted
  <2> QED
    BY <2>1, <2>2, <2>3, <2>4, SnapshotFits
<1> QED
  BY <1>2, <1>3 DEF Merge

-----------------------------------------------------------------------------
(* Reading.                                                                *)

\* A request that has just read holds what its handler checked.
LEMMA StartType ==
  ASSUME TypeInv, NEW r \in Requests, NEW op, NEW m, NEW p, NEW more, Start(r, op, m, p, more),
         [more EXCEPT !.op = op, !.by = m, !.p = p] \in RequestType,
         [more EXCEPT !.op = op, !.by = m, !.p = p].op # "idle",
         Holds([more EXCEPT !.op = op, !.by = m, !.p = p])
  PROVE  TypeInv'
<1> DEFINE read == [more EXCEPT !.op = op, !.by = m, !.p = p]
<1>1. req' = [req EXCEPT ![r] = read] /\ UNCHANGED rows
  BY DEF Start
<1>2. read \in RequestType /\ read.op # "idle" /\ Holds(read)
  OBVIOUS
<1> HIDE DEF read
<1>3. req' \in [Requests -> RequestType]
  BY <1>1, <1>2 DEF TypeInv
<1>4. \A q \in Requests : req'[q] = IF q = r THEN read ELSE req[q]
  BY <1>1 DEF TypeInv
<1>5. \A q \in Requests : req'[q].op = "idle" <=> req'[q] = Idle
  BY <1>2, <1>4, IdleType DEF TypeInv, TypeOK
<1>6. \A q \in Requests : Holds(req'[q])
  BY <1>2, <1>4 DEF TypeInv
<1>7. \A q \in Requests : Holds(req[q])'
  BY <1>1, <1>6 DEF Holds, rows
<1> QED
  BY <1>1, <1>3, <1>5, <1>7 DEF TypeInv, TypeOK, BookOK, rows

LEMMA LoadType ==
  ASSUME TypeInv, NEW r \in Requests, Load(r)
  PROVE  TypeInv'
<1>0. Idle.stale = FALSE /\ BOOLEAN = {TRUE, FALSE}
  BY DEF Idle
<1>1. ASSUME LoadCreate(r) PROVE TypeInv'
  <2>1. PICK d \in Drafts, submit \in BOOLEAN :
          MayPropose(d) /\ Start(r, "create", d.by, None, [Idle EXCEPT !.draft = d, !.flag = submit])
    BY <1>1 DEF LoadCreate
  <2> DEFINE more == [Idle EXCEPT !.draft = d, !.flag = submit]
             read == [more EXCEPT !.op = "create", !.by = d.by, !.p = None]
  <2>2. d \in DraftType /\ (d.type # "new_rule" => d.target \in Rules)
    BY DraftsAssumption
  <2>3. d.type # "new_rule" => rule[d.target] \in RowType
    BY <2>1, <2>2 DEF MayPropose, TypeInv, TypeOK
  <2>4. read \in RequestType /\ read.op = "create" /\ read.draft = d
    BY <2>2 DEF Idle, RequestType, DraftType
  <2>5. Holds(read)
    BY <2>3, <2>4 DEF Holds, OnProposal
  <2> HIDE DEF more
  <2> QED
    BY <2>1, <2>4, <2>5, StartType DEF more
<1>2. ASSUME NEW m \in Members, LoadRollback(r, m) PROVE TypeInv'
  <2>1. PICK u \in Rules : \E v \in DOMAIN history[u] :
          Start(r, "rollback", m, None,
                [Idle EXCEPT !.rule = u, !.cached = rule[u], !.version = history[u][v]])
    BY <1>2 DEF LoadRollback
  <2>2. PICK v \in DOMAIN history[u] :
          Start(r, "rollback", m, None,
                [Idle EXCEPT !.rule = u, !.cached = rule[u], !.version = history[u][v]])
    BY <2>1
  <2> DEFINE more == [Idle EXCEPT !.rule = u, !.cached = rule[u], !.version = history[u][v]]
             read == [more EXCEPT !.op = "rollback", !.by = m, !.p = None]
  <2>3. history[u] \in Seq(SnapshotType) /\ history[u] # <<>>
    BY DEF TypeInv, TypeOK
  <2>4. history[u][v] \in SnapshotType /\ rule[u] \in RowType
    BY <2>3 DEF TypeInv, BookOK
  <2>5. /\ read \in RequestType /\ read.op = "rollback" /\ read.rule = u
        /\ read.cached = rule[u] /\ read.version = history[u][v]
    BY <2>4 DEF Idle, RequestType
  <2>6. Holds(read)
    BY <2>4, <2>5 DEF Holds, OnProposal
  <2> HIDE DEF more
  <2> QED
    BY <2>2, <2>5, <2>6, StartType DEF more
<1>3. ASSUME NEW m \in Members, NEW p \in Proposals, NEW op \in OnProposal \ {"edit", "vote", "force_merge"},
             NEW more \in RequestType, Fits(op, status[p]), Read(r, op, m, p, more)
      PROVE  TypeInv'
  <2> DEFINE read == [more EXCEPT !.op = op, !.by = m, !.p = p]
  <2>1. op \notin {"idle", "create", "edit", "vote", "force_merge", "rollback"}
    BY DEF OnProposal
  <2>2. read \in RequestType /\ read.op = op /\ read.p = p
    BY DEF RequestType
  <2> HIDE DEF read
  <2>3. Holds(read)
    BY <1>3, <2>1, <2>2 DEF Holds, Read
  <2> QED
    BY <1>3, <2>1, <2>2, <2>3, StartType DEF Read, read
<1>4. ASSUME NEW m \in Members, NEW p \in Proposals, LoadEdit(r, m, p) PROVE TypeInv'
  <2>1. PICK e \in Edits :
          /\ status[p] = "draft"
          /\ Read(r, "edit", m, p, [Idle EXCEPT !.draft =
               [draft[p] EXCEPT !.text   = IF e.text # None THEN e.text ELSE @,
                                !.amount = IF e.amount # None THEN e.amount ELSE @]])
    BY <1>4 DEF LoadEdit
  <2> DEFINE text   == IF e.text # None THEN e.text ELSE draft[p].text
             amount == IF e.amount # None THEN e.amount ELSE draft[p].amount
             edited == [draft[p] EXCEPT !.text = text, !.amount = amount]
  <2>2. draft[p] \in DraftType /\ (draft[p].type = "new_rule" => draft[p].text # None)
    BY <2>1 DEF TypeInv, BookOK
  <2>3. /\ text \in Texts \cup {None} /\ amount \in Int \cup {None}
        /\ draft[p].text # None => text # None
    BY <2>2, DraftsAssumption DEF DraftType, Texts
  <2>4. Start(r, "edit", m, p, [Idle EXCEPT !.draft = edited])
    BY <2>1, <2>2 DEF Read, DraftType
  <2> HIDE DEF text, amount
  <2>5. /\ edited \in DraftType /\ edited.type = draft[p].type /\ edited.target = draft[p].target
        /\ edited.type = "new_rule" => edited.text # None
    BY <2>2, <2>3 DEF DraftType
  <2> HIDE DEF edited
  <2> DEFINE more == [Idle EXCEPT !.draft = edited]
             read == [more EXCEPT !.op = "edit", !.by = m, !.p = p]
  <2>6. read \in RequestType /\ read.op = "edit" /\ read.p = p /\ read.draft = edited
    BY <2>5 DEF Idle, RequestType, OnProposal
  <2>7. Holds(read)
    BY <2>1, <2>5, <2>6 DEF Holds, Fits
  <2> HIDE DEF more
  <2> QED
    BY <2>4, <2>6, <2>7, StartType DEF more
<1>5. ASSUME NEW m \in Members, NEW p \in Proposals, LoadVote(r, m, p) PROVE TypeInv'
  <2>1. PICK choice \in Choices :
          Read(r, "vote", m, p, [Idle EXCEPT !.choice = choice, !.prior = ballots[p][m]])
    BY <1>5 DEF LoadVote
  <2> DEFINE more == [Idle EXCEPT !.choice = choice, !.prior = ballots[p][m]]
             read == [more EXCEPT !.op = "vote", !.by = m, !.p = p]
  <2>2. ballots[p][m] \in Choices \cup {None}
    BY DEF TypeInv, TypeOK
  <2>3. read \in RequestType /\ read.op = "vote" /\ read.p = p /\ read.by = m /\ read.choice = choice
    BY <2>2 DEF Idle, RequestType, OnProposal
  <2>4. Holds(read)
    BY <1>5, <2>3 DEF Holds, Fits, LoadVote
  <2> HIDE DEF more
  <2> QED
    BY <2>1, <2>3, <2>4, StartType DEF more, Read
<1>6. ASSUME NEW m \in Members, NEW p \in Proposals, LoadForceMerge(r, m, p) PROVE TypeInv'
  <2> DEFINE cached == IF draft[p].type = "new_rule" THEN None ELSE rule[draft[p].target]
             more   == [Idle EXCEPT !.cached = cached]
             read   == [more EXCEPT !.op = "force_merge", !.by = m, !.p = p]
  <2>1. status[p] \in {"voting", "pending_review"} /\ Start(r, "force_merge", m, p, more)
    BY <1>6 DEF LoadForceMerge, Read
  <2>2. cached \in RowType \cup {None} /\ (draft[p].type # "new_rule" => cached \in RowType)
    BY <2>1 DEF TypeInv, BookOK
  <2> HIDE DEF cached
  <2>3. read \in RequestType /\ read.op = "force_merge" /\ read.p = p /\ read.cached = cached
    BY <2>2 DEF Idle, RequestType, OnProposal
  <2>4. Holds(read)
    BY <2>1, <2>2, <2>3 DEF Holds, Fits
  <2> HIDE DEF more
  <2> QED
    BY <2>1, <2>3, <2>4, StartType DEF more
<1>7. Idle \in RequestType
  BY IdleType
<1>8. ASSUME NEW m \in Members, NEW p \in Proposals,
             \/ LoadSubmit(r, m, p) \/ LoadApprove(r, m, p) \/ LoadReject(r, m, p)
             \/ LoadExtend(r, m, p) \/ LoadFreeze(r, m, p) \/ LoadCancel(r, m, p)
      PROVE  TypeInv'
  <2>1. CASE LoadSubmit(r, m, p)
    BY <1>3, <1>7, <2>1 DEF LoadSubmit, OnProposal, Fits
  <2>2. CASE LoadApprove(r, m, p)
    BY <1>3, <1>7, <2>2 DEF LoadApprove, OnProposal, Fits
  <2>3. CASE LoadReject(r, m, p)
    BY <1>3, <1>7, <2>3 DEF LoadReject, OnProposal, Fits
  <2>4. CASE LoadExtend(r, m, p)
    BY <1>3, <1>7, <2>4 DEF LoadExtend, OnProposal, Fits
  <2>5. CASE LoadFreeze(r, m, p)
    <3>1. [Idle EXCEPT !.flag = ~frozen[p]] \in RequestType
      BY DEF Idle, RequestType
    <3> QED
      BY <1>3, <2>5, <3>1 DEF LoadFreeze, OnProposal, Fits
  <2>6. CASE LoadCancel(r, m, p)
    <3>1. status[p] \in {"draft", "pending_review", "voting"}
      BY <2>6 DEF LoadCancel, Resolved, TypeInv, TypeOK, Statuses
    <3> QED
      BY <1>3, <1>7, <2>6, <3>1 DEF LoadCancel, OnProposal, Fits
  <2> QED
    BY <1>8, <2>1, <2>2, <2>3, <2>4, <2>5, <2>6
<1> QED
  BY <1>1, <1>2, <1>4, <1>5, <1>6, <1>8 DEF Load

-----------------------------------------------------------------------------
(* Writing.                                                                *)

\* What a step may do to the requests: end them, leave those alone that work
\* on no proposal of P, and outdate the row the others hold.
ReqStep(P) ==
  /\ req' \in [Requests -> RequestType]
  /\ \A q \in Requests :
       \/ req'[q] = Idle
       \/ req'[q] = req[q] /\ req[q].p \notin P
       \/ req'[q] = [req[q] EXCEPT !.stale = TRUE] /\ req[q] # Idle

LEMMA FinishStep ==
  ASSUME TypeInv, NEW r \in Requests, req' = [req EXCEPT ![r] = Idle]
  PROVE  ReqStep({})
BY IdleType DEF ReqStep, TypeInv

LEMMA OutdatedStep ==
  ASSUME TypeInv, NEW p \in Proposals
  PROVE  /\ Outdated(p) \in [Requests -> RequestType]
         /\ \A q \in Requests :
              \/ Outdated(p)[q] = req[q] /\ req[q].p # p
              \/ Outdated(p)[q] = [req[q] EXCEPT !.stale = TRUE] /\ req[q] # Idle
<1>1. req \in [Requests -> RequestType]
  BY DEF TypeInv
<1>2. \A q \in Requests : [req[q] EXCEPT !.stale = TRUE] \in RequestType
  BY <1>1 DEF RequestType
<1>3. \A q \in Requests : req[q].p = p => req[q] # Idle
  BY NoneAssumption DEF Idle
<1> QED
  BY <1>1, <1>2, <1>3 DEF Outdated

LEMMA UpdateStep ==
  ASSUME TypeInv, NEW r \in Requests, NEW op \in OnProposal, Update(r, op)
  PROVE  /\ req[r].p \in Proposals /\ status[req[r].p] # "absent" /\ Fits(op, status[req[r].p])
         /\ ReqStep({req[r].p})
<1>1. req[r].op = op /\ ~req[r].stale /\ req' = [Outdated(req[r].p) EXCEPT ![r] = Idle]
  BY DEF Update
<1>2. req[r].p \in Proposals /\ status[req[r].p] # "absent" /\ Fits(op, status[req[r].p])
  BY <1>1 DEF TypeInv, Holds
<1> QED
  BY <1>1, <1>2, OutdatedStep, IdleType DEF ReqStep

\* A step that keeps every proposal, what it asks for and every row of the
\* rule book keeps what the requests in flight rely on.
LEMMA RequestsKept ==
  ASSUME TypeInv, NEW P, ReqStep(P),
         \A p \in Proposals : status[p] # "absent" =>
           /\ status'[p] # "absent"
           /\ draft'[p].type = draft[p].type /\ draft'[p].target = draft[p].target
           /\ p \notin P => status'[p] = status[p],
         \A u \in Rules : rule[u] \in RowType => rule'[u] \in RowType
  PROVE  /\ (\A r \in Requests : req[r].op = "idle" <=> req[r] = Idle)'
         /\ \A r \in Requests : Holds(req[r])'
<1>1. SUFFICES ASSUME NEW r \in Requests
               PROVE  (req[r].op = "idle" <=> req[r] = Idle)' /\ Holds(req[r])'
  OBVIOUS
<1>2. req[r] \in RequestType /\ Holds(req[r]) /\ (req[r].op = "idle" <=> req[r] = Idle)
  BY DEF TypeInv, TypeOK
<1>3. \A d \in Drafts : d.type # "new_rule" => d.target \in Rules
  BY DraftsAssumption
<1>4. CASE req'[r] = Idle
  BY <1>4, IdleType DEF Holds, OnProposal
<1>5. CASE req'[r] = req[r] /\ req[r].p \notin P
  <2>1. req[r].op \in OnProposal => /\ req[r].p \in Proposals
                                    /\ status'[req[r].p] # "absent"
                                    /\ ~req[r].stale => Fits(req[r].op, status'[req[r].p])
                                    /\ draft'[req[r].p].type = draft[req[r].p].type
                                    /\ draft'[req[r].p].target = draft[req[r].p].target
    BY <1>2, <1>5 DEF Holds
  <2>2. Idle' = Idle
    BY DEF Idle
  <2> QED
    BY <1>2, <1>3, <1>5, <2>1, <2>2 DEF Holds, OnProposal
<1>6. CASE req'[r] = [req[r] EXCEPT !.stale = TRUE] /\ req[r] # Idle
  <2> DEFINE q == [req[r] EXCEPT !.stale = TRUE]
  <2>1. /\ q.stale = TRUE /\ q.op = req[r].op /\ q.p = req[r].p /\ q.by = req[r].by
        /\ q.draft = req[r].draft /\ q.choice = req[r].choice /\ q.rule = req[r].rule
        /\ q.cached = req[r].cached /\ q.version = req[r].version
    BY <1>2 DEF RequestType
  <2>2. q # Idle /\ q.op # "idle"
    BY <1>2, <1>6, <2>1, IdleType
  <2> HIDE DEF q
  <2>3. req[r].op \in OnProposal => /\ req[r].p \in Proposals
                                    /\ status'[req[r].p] # "absent"
                                    /\ draft'[req[r].p].type = draft[req[r].p].type
                                    /\ draft'[req[r].p].target = draft[req[r].p].target
    BY <1>2 DEF Holds
  <2>4. req'[r] = q
    BY <1>6 DEF q
  <2>5. Idle' = Idle
    BY DEF Idle
  <2> QED
    BY <1>2, <1>3, <2>1, <2>2, <2>3, <2>4, <2>5 DEF Holds, OnProposal
<1> QED
  BY <1>4, <1>5, <1>6 DEF ReqStep

\* A step that rewrites no draft and publishes at most one version.
LEMMA DraftsKept ==
  ASSUME TypeInv, NEW P, ReqStep(P), UNCHANGED draft,
         role' \in [Members -> {"tenant", "guest", "gone"}],
         status' \in [Proposals -> Statuses],
         recent' \in [Proposals -> BOOLEAN],
         closing' \in [Proposals -> {"none", "running", "passed"}],
         frozen' \in [Proposals -> BOOLEAN],
         ballots' \in [Proposals -> [Members -> Choices \cup {None}]],
         \A p \in Proposals :
           \/ status'[p] = status[p]
           \/ p \in P /\ status[p] # "absent" /\ status'[p] # "absent",
         \/ UNCHANGED <<rule, history>>
         \/ \E u \in Rules, row \in RowType, snapshot \in SnapshotType : Publish(u, row, snapshot)
  PROVE  TypeInv'
<1>1. /\ rule' \in [Rules -> RowType \cup {None}] /\ history' \in [Rules -> Seq(SnapshotType)]
      /\ \A u \in Rules : rule[u] \in RowType => rule'[u] \in RowType
      /\ \A u \in Rules : history'[u] # <<>> => rule'[u] \in RowType
  <2>1. CASE UNCHANGED <<rule, history>>
    BY <2>1 DEF TypeInv, TypeOK, BookOK
  <2>2. CASE \E u \in Rules, row \in RowType, snapshot \in SnapshotType : Publish(u, row, snapshot)
    BY <2>2, PublishType DEF TypeInv, BookOK
  <2> QED
    BY <2>1, <2>2
<1>2. \A p \in Proposals : status'[p] # "absent" <=> status[p] # "absent"
  OBVIOUS
<1>3. BookOK'
  BY <1>1, <1>2 DEF TypeInv, BookOK
<1>4. /\ (\A r \in Requests : req[r].op = "idle" <=> req[r] = Idle)'
      /\ \A r \in Requests : Holds(req[r])'
  BY <1>1, <1>2, RequestsKept
<1> QED
  BY <1>1, <1>3, <1>4 DEF TypeInv, TypeOK, ReqStep

LEMMA CreateType ==
  ASSUME TypeInv, NEW r \in Requests, CommitCreate(r)
  PROVE  TypeInv'
<1>1. PICK p \in Proposals :
        /\ status[p] = "absent"
        /\ draft' = [draft EXCEPT ![p] = req[r].draft]
        /\ recent' = [recent EXCEPT ![p] = TRUE]
        /\ IF req[r].flag THEN Submitted(p)
                          ELSE status' = [status EXCEPT ![p] = "draft"] /\ UNCHANGED closing
  BY DEF CommitCreate
<1>2. UNCHANGED <<role, frozen, ballots, rule, history>>
  BY DEF CommitCreate
<1>3. ReqStep({})
  BY FinishStep DEF CommitCreate, Finish
<1> DEFINE d == req[r].draft
<1>4. /\ d \in DraftType
      /\ d.type = "new_rule" => d.text # None
      /\ d.type # "new_rule" => d.target \in Rules /\ rule[d.target] \in RowType
  BY DraftsAssumption DEF CommitCreate, Finish, TypeInv, Holds
<1>5. \E s \in {"draft", "pending_review", "voting"} : status' = [status EXCEPT ![p] = s]
  BY <1>1 DEF Submitted, OpenVoting
<1>6. status' \in [Proposals -> Statuses]
  BY <1>5 DEF TypeInv, TypeOK, Statuses
<1>7. closing' \in [Proposals -> {"none", "running", "passed"}]
  BY <1>1 DEF Submitted, OpenVoting, TypeInv, TypeOK
<1> HIDE DEF d
<1>8. draft' \in [Proposals -> DraftType \cup {None}] /\ recent' \in [Proposals -> BOOLEAN]
  BY <1>1, <1>4 DEF TypeInv, TypeOK, d
<1>9. \A q \in Proposals : IF q = p THEN draft'[q] = d
                           ELSE draft'[q] = draft[q] /\ status'[q] = status[q]
  BY <1>1, <1>5 DEF TypeInv, TypeOK, d
<1>10. BookOK'
  BY <1>2, <1>4, <1>9 DEF TypeInv, BookOK
<1>11. /\ (\A q \in Requests : req[q].op = "idle" <=> req[q] = Idle)'
       /\ \A q \in Requests : Holds(req[q])'
  BY <1>1, <1>2, <1>3, <1>9, RequestsKept
<1> QED
  BY <1>2, <1>3, <1>6, <1>7, <1>8, <1>10, <1>11 DEF TypeInv, TypeOK, ReqStep

LEMMA EditType ==
  ASSUME TypeInv, NEW r \in Requests, CommitEdit(r)
  PROVE  TypeInv'
<1> DEFINE p == req[r].p
           d == req[r].draft
<1>1. p \in Proposals /\ status[p] # "absent" /\ ReqStep({p})
  BY UpdateStep DEF CommitEdit, OnProposal
<1>2. draft' = [draft EXCEPT ![p] = d] /\ UNCHANGED <<role, status, recent, closing, frozen, ballots, rule, history>>
  BY DEF CommitEdit
<1>3. /\ d \in DraftType /\ d.type = draft[p].type /\ d.target = draft[p].target
      /\ d.type = "new_rule" => d.text # None
  BY DEF CommitEdit, Update, TypeInv, Holds
<1> HIDE DEF p, d
<1>4. draft' \in [Proposals -> DraftType \cup {None}]
  BY <1>1, <1>2, <1>3 DEF TypeInv, TypeOK
<1>5. \A q \in Proposals : draft'[q] = IF q = p THEN d ELSE draft[q]
  BY <1>2 DEF TypeInv, TypeOK
<1>6. BookOK'
  BY <1>1, <1>2, <1>3, <1>5 DEF TypeInv, BookOK
<1>7. /\ (\A q \in Requests : req[q].op = "idle" <=> req[q] = Idle)'
      /\ \A q \in Requests : Holds(req[q])'
  BY <1>1, <1>2, <1>3, <1>5, RequestsKept
<1> QED
  BY <1>1, <1>2, <1>4, <1>6, <1>7 DEF TypeInv, TypeOK, ReqStep

\* The commits that update the row of their proposal, but not its draft.
LEMMA UpdateType ==
  ASSUME TypeInv, NEW r \in Requests,
         \/ CommitSubmit(r) \/ CommitApprove(r) \/ CommitReject(r) \/ CommitExtend(r)
         \/ CommitFreeze(r) \/ CommitCancel(r) \/ CommitForceMerge(r)
  PROVE  TypeInv'
<1> DEFINE p == req[r].p
<1>1. ASSUME NEW s \in Statuses \ {"absent"}, status' = [status EXCEPT ![p] = s],
             NEW op \in OnProposal, Update(r, op), UNCHANGED <<role, draft, recent, frozen, ballots>>,
             closing' \in [Proposals -> {"none", "running", "passed"}],
             \/ UNCHANGED <<rule, history>>
             \/ \E u \in Rules, row \in RowType, snapshot \in SnapshotType : Publish(u, row, snapshot)
      PROVE  TypeInv'
  <2>1. p \in Proposals /\ status[p] # "absent" /\ ReqStep({p})
    BY <1>1, UpdateStep
  <2> HIDE DEF p
  <2>2. status' \in [Proposals -> Statuses]
    BY <1>1 DEF TypeInv, TypeOK
  <2>3. \A q \in Proposals : status'[q] = IF q = p THEN s ELSE status[q]
    BY <1>1 DEF TypeInv, TypeOK
  <2> QED
    BY <1>1, <2>1, <2>2, <2>3, DraftsKept DEF TypeInv, TypeOK
<1>2. CASE CommitSubmit(r)
  <2>1. PICK s \in {"pending_review", "voting"} : status' = [status EXCEPT ![p] = s]
    BY <1>2 DEF CommitSubmit, Submitted, OpenVoting
  <2>2. closing' \in [Proposals -> {"none", "running", "passed"}]
    BY <1>2 DEF CommitSubmit, Submitted, OpenVoting, TypeInv, TypeOK
  <2> QED
    BY <1>1, <1>2, <2>1, <2>2 DEF CommitSubmit, OnProposal, Statuses
<1>3. CASE CommitApprove(r)
  <2>1. closing' \in [Proposals -> {"none", "running", "passed"}]
    BY <1>3 DEF CommitApprove, OpenVoting, TypeInv, TypeOK
  <2> QED
    BY <1>1, <1>3, <2>1 DEF CommitApprove, OpenVoting, OnProposal, Statuses
<1>4. CASE CommitReject(r)
  BY <1>1, <1>4 DEF CommitReject, Resolve, OnProposal, Statuses, TypeInv, TypeOK
<1>5. CASE CommitCancel(r)
  BY <1>1, <1>5 DEF CommitCancel, Resolve, OnProposal, Statuses, TypeInv, TypeOK
<1>6. CASE CommitForceMerge(r)
  <2>1. /\ Update(r, "force_merge") /\ status' = [status EXCEPT ![p] = "passed"]
        /\ UNCHANGED <<role, draft, recent, closing, frozen, ballots>>
        /\ Merge(p, req[r].cached)
    BY <1>6 DEF CommitForceMerge, Resolve
  <2>2. p \in Proposals /\ status[p] # "absent" /\ (draft[p].type # "new_rule" => req[r].cached \in RowType)
    BY <2>1, UpdateStep DEF OnProposal, Update, TypeInv, Holds
  <2>3. \E u \in Rules, row \in RowType, snapshot \in SnapshotType : Publish(u, row, snapshot)
    BY <2>1, <2>2, MergeType
  <2> QED
    BY <1>1, <2>1, <2>3 DEF OnProposal, Statuses, TypeInv, TypeOK
<1>7. CASE CommitExtend(r)
  <2>1. p \in Proposals /\ status[p] # "absent" /\ ReqStep({p})
    BY <1>7, UpdateStep DEF CommitExtend, OnProposal
  <2>2. closing' \in [Proposals -> {"none", "running", "passed"}]
    BY <1>7, <2>1 DEF CommitExtend, TypeInv, TypeOK
  <2> QED
    BY <1>7, <2>1, <2>2, DraftsKept DEF CommitExtend, TypeInv, TypeOK
<1>8. CASE CommitFreeze(r)
  <2>1. p \in Proposals /\ status[p] # "absent" /\ ReqStep({p})
    BY <1>8, UpdateStep DEF CommitFreeze, OnProposal
  <2>2. frozen' \in [Proposals -> BOOLEAN]
    BY <1>8 DEF CommitFreeze, TypeInv, TypeOK, RequestType
  <2> QED
    BY <1>8, <2>1, <2>2, DraftsKept DEF CommitFreeze, TypeInv, TypeOK
<1> QED
  BY <1>2, <1>3, <1>4, <1>5, <1>6, <1>7, <1>8

\* The steps that update no proposal: a ballot, a rollback, a request given up.
LEMMA FinishType ==
  ASSUME TypeInv, NEW r \in Requests, CommitVote(r) \/ CommitRollback(r) \/ Abandon(r)
  PROVE  TypeInv'
<1>1. CASE CommitVote(r)
  <2> DEFINE p == req[r].p
             m == req[r].by
  <2>1. ReqStep({}) /\ UNCHANGED <<role, status, draft, recent, closing, frozen, rule, history>>
    BY <1>1, FinishStep DEF CommitVote, Finish
  <2>2. p \in Proposals /\ m \in Members /\ req[r].choice \in Choices
    BY <1>1 DEF CommitVote, Finish, TypeInv, Holds, OnProposal
  <2>3. ballots' = ballots \/ ballots' = [ballots EXCEPT ![p][m] = req[r].choice]
    BY <1>1 DEF CommitVote
  <2> HIDE DEF p, m
  <2>4. ballots \in [Proposals -> [Members -> Choices \cup {None}]]
    BY DEF TypeInv, TypeOK
  <2>5. [ballots[p] EXCEPT ![m] = req[r].choice] \in [Members -> Choices \cup {None}]
    BY <2>2, <2>4
  <2>6. ballots' \in [Proposals -> [Members -> Choices \cup {None}]]
    BY <2>3, <2>4, <2>5
  <2> QED
    BY <2>1, <2>6, DraftsKept DEF TypeInv, TypeOK
<1>2. CASE CommitRollback(r)
  <2> DEFINE u      == req[r].rule
             v      == req[r].version
             wanted == [text |-> v.text, amount |-> v.amount, active |-> v.active]
  <2>1. /\ ReqStep({}) /\ UNCHANGED <<role, status, draft, recent, closing, frozen, ballots>>
        /\ Publish(u, Written(rule[u], req[r].cached, wanted), Snapshot(wanted, v.active, None))
    BY <1>2, FinishStep DEF CommitRollback, Finish
  <2>2. u \in Rules /\ rule[u] \in RowType /\ req[r].cached \in RowType /\ v \in SnapshotType
    BY <1>2 DEF CommitRollback, Finish, TypeInv, Holds
  <2>3. wanted \in RowType /\ v.active \in BOOLEAN
    BY <2>2 DEF RowType, SnapshotType
  <2>4. Written(rule[u], req[r].cached, wanted) \in RowType
    BY <2>2, <2>3, WrittenType
  <2>5. Snapshot(wanted, v.active, None) \in SnapshotType
    BY <2>3, SnapshotFits
  <2> HIDE DEF wanted
  <2> QED
    BY <2>1, <2>2, <2>4, <2>5, DraftsKept DEF TypeInv, TypeOK
<1>3. CASE Abandon(r)
  <2>1. ReqStep({}) /\ UNCHANGED rows
    BY <1>3, FinishStep DEF Abandon
  <2> QED
    BY <2>1, DraftsKept DEF rows, TypeInv, TypeOK
<1> QED
  BY <1>1, <1>2, <1>3

LEMMA SweepMerges ==
  ASSUME TypeInv, NEW p \in Proposals, Sweep(p)
  PROVE  /\ status[p] = "voting" /\ Outcome(p) \in {"passed", "rejected", "expired"}
         /\ Outcome(p) # "passed" => UNCHANGED <<rule, history>>
         /\ Outcome(p) = "passed" =>
              \E u \in Rules, row \in RowType, snapshot \in SnapshotType :
                Publish(u, row, snapshot) /\ snapshot.proposal = p
<1>1. status[p] = "voting"
  BY DEF Sweep, Due
<1>2. Outcome(p) \in {"passed", "rejected", "expired"}
  BY DEF Outcome
<1> DEFINE cached == IF draft[p].type = "new_rule" THEN None ELSE rule[draft[p].target]
<1>3. CASE Outcome(p) = "passed"
  <2>1. Merge(p, cached)
    BY <1>3 DEF Sweep
  <2>2. draft[p].type # "new_rule" => cached \in RowType
    BY <1>1 DEF TypeInv, BookOK
  <2> HIDE DEF cached
  <2> QED
    BY <1>1, <1>2, <1>3, <2>1, <2>2, MergeType
<1>4. CASE Outcome(p) # "passed"
  BY <1>1, <1>2, <1>4 DEF Sweep
<1> QED
  BY <1>3, <1>4

LEMMA SweepType ==
  ASSUME TypeInv, NEW p \in Proposals, Sweep(p)
  PROVE  TypeInv'
<1>1. /\ status' = [status EXCEPT ![p] = Outcome(p)] /\ req' = Outdated(p)
      /\ UNCHANGED <<role, draft, recent, closing, frozen, ballots>>
  BY DEF Sweep
<1>2. ReqStep({p})
  BY <1>1, OutdatedStep DEF ReqStep
<1>3. /\ status[p] = "voting" /\ Outcome(p) \in Statuses \ {"absent"}
      /\ \/ UNCHANGED <<rule, history>>
         \/ \E u \in Rules, row \in RowType, snapshot \in SnapshotType : Publish(u, row, snapshot)
  BY SweepMerges DEF Statuses
<1>4. status' \in [Proposals -> Statuses]
  BY <1>1, <1>3 DEF TypeInv, TypeOK
<1>5. \A q \in Proposals : status'[q] = IF q = p THEN Outcome(p) ELSE status[q]
  BY <1>1 DEF TypeInv, TypeOK
<1> QED
  BY <1>1, <1>2, <1>3, <1>4, <1>5, DraftsKept DEF TypeInv, TypeOK

\* The passing of time and the member service leave the requests alone.
LEMMA OutsideType ==
  ASSUME TypeInv,
         \/ \E p \in Proposals : Elapse(p) \/ Age(p)
         \/ \E m \in Moving : ChangeRole(m)
  PROVE  TypeInv'
<1>1. UNCHANGED <<status, draft, frozen, ballots, rule, history, req>>
  BY DEF Elapse, Age, ChangeRole
<1>2. ReqStep({})
  BY <1>1 DEF ReqStep, TypeInv
<1>3. role \in [Members -> {"tenant", "guest", "gone"}] /\ recent \in [Proposals -> BOOLEAN]
      /\ closing \in [Proposals -> {"none", "running", "passed"}]
  BY DEF TypeInv, TypeOK
<1>4. role' \in [Members -> {"tenant", "guest", "gone"}]
  BY <1>3 DEF Elapse, Age, ChangeRole
<1>5. recent' = recent \/ \E p \in Proposals : recent' = [recent EXCEPT ![p] = FALSE]
  BY DEF Elapse, Age, ChangeRole
<1>6. closing' = closing \/ \E p \in Proposals : closing' = [closing EXCEPT ![p] = "passed"]
  BY DEF Elapse, Age, ChangeRole
<1>7. recent' \in [Proposals -> BOOLEAN] /\ closing' \in [Proposals -> {"none", "running", "passed"}]
  BY <1>3, <1>5, <1>6
<1> QED
  BY <1>1, <1>2, <1>4, <1>7, DraftsKept DEF TypeInv, TypeOK

-----------------------------------------------------------------------------
(* The type invariant.                                                     *)

LEMMA TypeInit == Init => TypeInv
<1> SUFFICES ASSUME Init PROVE TypeInv
  OBVIOUS
<1>1. req \in [Requests -> RequestType] /\ \A r \in Requests : req[r] = Idle
  BY IdleType DEF Init
<1>2. \A r \in Requests : Holds(req[r])
  BY <1>1, IdleType DEF Holds, OnProposal
<1>3. BookOK
  BY DEF Init, BookOK
<1>4. rule \in [Rules -> RowType \cup {None}] /\ history \in [Rules -> Seq(SnapshotType)]
  BY DraftsAssumption DEF Init
<1>5. /\ role \in [Members -> {"tenant", "guest", "gone"}] /\ status \in [Proposals -> Statuses]
      /\ draft \in [Proposals -> DraftType \cup {None}] /\ recent \in [Proposals -> BOOLEAN]
      /\ closing \in [Proposals -> {"none", "running", "passed"}]
      /\ frozen \in [Proposals -> BOOLEAN]
      /\ ballots \in [Proposals -> [Members -> Choices \cup {None}]]
  BY DEF Init, Statuses
<1> QED
  BY <1>1, <1>2, <1>3, <1>4, <1>5, IdleType DEF TypeInv, TypeOK

LEMMA TypeInductive == TypeInv /\ [Next]_vars => TypeInv'
<1> SUFFICES ASSUME TypeInv, [Next]_vars PROVE TypeInv'
  OBVIOUS
<1>1. ASSUME NEW r \in Requests, Load(r) PROVE TypeInv'
  BY <1>1, LoadType
<1>2. ASSUME NEW r \in Requests, Commit(r) \/ Abandon(r) PROVE TypeInv'
  BY <1>2, CreateType, EditType, UpdateType, FinishType DEF Commit
<1>3. ASSUME NEW p \in Proposals, Sweep(p) PROVE TypeInv'
  BY <1>3, SweepType
<1>4. ASSUME \/ \E p \in Proposals : Elapse(p) \/ Age(p)
             \/ \E m \in Moving : ChangeRole(m)
      PROVE  TypeInv'
  BY <1>4, OutsideType
<1>5. CASE UNCHANGED vars
  <2>1. UNCHANGED rows /\ UNCHANGED req
    BY <1>5 DEF vars
  <2>2. ReqStep({})
    BY <2>1 DEF ReqStep, TypeInv
  <2> QED
    BY <2>1, <2>2, DraftsKept DEF rows, TypeInv, TypeOK
<1> QED
  BY <1>1, <1>2, <1>3, <1>4, <1>5 DEF Next

\* However requests, the sweep and the member service interleave, every
\* column holds a value of its type, no version of a rule has a negative
\* amount, and a slot that runs no request holds nothing over.
THEOREM ProposalTypes == Spec => []TypeOK
<1>1. Spec => []TypeInv
  BY TypeInit, TypeInductive, PTL DEF Spec
<1>2. TypeInv => TypeOK
  BY DEF TypeInv
<1> QED
  BY <1>1, <1>2, PTL

-----------------------------------------------------------------------------
(* The lifecycle: how a step moves the proposals and the rule book.        *)

\* The moves of a proposal that leave the rule book alone.
Moved(from, to) ==
  \/ from = "absent" /\ to \in {"draft", "pending_review", "voting"}
  \/ from = "draft" /\ to \in {"pending_review", "voting"}
  \/ from = "pending_review" /\ to = "voting"
  \/ from \in {"draft", "pending_review", "voting"} /\ to \in {"rejected", "cancelled"}
  \/ from = "voting" /\ to = "expired"

\* A version published for owner, a proposal or nobody.
Publishes(owner) ==
  \E u \in Rules, row \in RowType, snapshot \in SnapshotType :
    Publish(u, row, snapshot) /\ snapshot.proposal = owner

Quiet    == UNCHANGED status /\ (UNCHANGED history \/ Publishes(None))
Turns(p) == \E s \in Statuses : /\ status' = [status EXCEPT ![p] = s]
                                /\ Moved(status[p], s) /\ UNCHANGED history
Passes(p) == /\ status[p] \in {"pending_review", "voting"}
             /\ status' = [status EXCEPT ![p] = "passed"]
             /\ Publishes(p)

LEMMA CommitMoves ==
  ASSUME TypeInv, NEW r \in Requests, Commit(r)
  PROVE  Quiet \/ \E p \in Proposals : Turns(p) \/ Passes(p)
<1> DEFINE p == req[r].p
<1> USE DEF Quiet, Turns, Passes
<1>1. CASE CommitCreate(r)
  <2>1. PICK q \in Proposals : /\ status[q] = "absent" /\ UNCHANGED history
                               /\ \/ Submitted(q)
                                  \/ status' = [status EXCEPT ![q] = "draft"]
    BY <1>1 DEF CommitCreate
  <2>2. PICK s \in {"draft", "pending_review", "voting"} : status' = [status EXCEPT ![q] = s]
    BY <2>1 DEF Submitted, OpenVoting
  <2> QED
    BY <2>1, <2>2 DEF Moved, Statuses
<1>2. CASE CommitSubmit(r)
  <2>1. p \in Proposals /\ status[p] = "draft" /\ UNCHANGED history
    BY <1>2, UpdateStep DEF CommitSubmit, OnProposal, Fits
  <2>2. PICK s \in {"pending_review", "voting"} : status' = [status EXCEPT ![p] = s]
    BY <1>2 DEF CommitSubmit, Submitted, OpenVoting
  <2> QED
    BY <2>1, <2>2 DEF Moved, Statuses
<1>3. CASE CommitApprove(r)
  <2>1. p \in Proposals /\ status[p] = "pending_review" /\ UNCHANGED history
    BY <1>3, UpdateStep DEF CommitApprove, OnProposal, Fits
  <2>2. status' = [status EXCEPT ![p] = "voting"]
    BY <1>3 DEF CommitApprove, OpenVoting
  <2> QED
    BY <2>1, <2>2 DEF Moved, Statuses
<1>4. CASE CommitReject(r)
  <2>1. p \in Proposals /\ status[p] \in {"draft", "pending_review"}
    BY <1>4, UpdateStep DEF CommitReject, Resolve, OnProposal, Fits
  <2>2. status' = [status EXCEPT ![p] = "rejected"] /\ UNCHANGED history
    BY <1>4 DEF CommitReject, Resolve
  <2> QED
    BY <2>1, <2>2 DEF Moved, Statuses
<1>5. CASE CommitCancel(r)
  <2>1. p \in Proposals /\ status[p] \in {"draft", "pending_review", "voting"}
    BY <1>5, UpdateStep DEF CommitCancel, Resolve, OnProposal, Fits
  <2>2. status' = [status EXCEPT ![p] = "cancelled"] /\ UNCHANGED history
    BY <1>5 DEF CommitCancel, Resolve
  <2> QED
    BY <2>1, <2>2 DEF Moved, Statuses
<1>6. CASE CommitForceMerge(r)
  <2>1. p \in Proposals /\ status[p] \in {"pending_review", "voting"}
    BY <1>6, UpdateStep DEF CommitForceMerge, Resolve, OnProposal, Fits
  <2>2. status' = [status EXCEPT ![p] = "passed"] /\ Merge(p, req[r].cached)
    BY <1>6 DEF CommitForceMerge, Resolve
  <2>3. draft[p].type # "new_rule" => req[r].cached \in RowType
    BY <1>6 DEF CommitForceMerge, Resolve, Update, TypeInv, Holds
  <2>4. Publishes(p)
    BY <2>1, <2>2, <2>3, MergeType DEF Publishes
  <2> QED
    BY <2>1, <2>2, <2>4
<1>7. CASE CommitRollback(r)
  <2> DEFINE u      == req[r].rule
             v      == req[r].version
             wanted == [text |-> v.text, amount |-> v.amount, active |-> v.active]
  <2>1. /\ UNCHANGED status
        /\ Publish(u, Written(rule[u], req[r].cached, wanted), Snapshot(wanted, v.active, None))
    BY <1>7 DEF CommitRollback
  <2>2. u \in Rules /\ rule[u] \in RowType /\ req[r].cached \in RowType /\ v \in SnapshotType
    BY <1>7 DEF CommitRollback, Finish, TypeInv, Holds
  <2>3. wanted \in RowType /\ v.active \in BOOLEAN
    BY <2>2 DEF RowType, SnapshotType
  <2>4. Written(rule[u], req[r].cached, wanted) \in RowType
    BY <2>2, <2>3, WrittenType
  <2>5. /\ Snapshot(wanted, v.active, None) \in SnapshotType
        /\ Snapshot(wanted, v.active, None).proposal = None
    BY <2>3, SnapshotFits
  <2> HIDE DEF wanted
  <2> QED
    BY <2>1, <2>2, <2>4, <2>5 DEF Publishes
<1>8. CASE CommitEdit(r) \/ CommitVote(r) \/ CommitExtend(r) \/ CommitFreeze(r)
  BY <1>8 DEF CommitEdit, CommitVote, CommitExtend, CommitFreeze
<1> QED
  BY <1>1, <1>2, <1>3, <1>4, <1>5, <1>6, <1>7, <1>8 DEF Commit

LEMMA StepMoves ==
  ASSUME TypeInv, [Next]_vars
  PROVE  Quiet \/ \E p \in Proposals : Turns(p) \/ Passes(p)
<1>1. ASSUME NEW r \in Requests, Load(r) \/ Abandon(r) PROVE Quiet
  <2>1. UNCHANGED rows
    <3>1. CASE Abandon(r)
      BY <3>1 DEF Abandon
    <3>2. CASE LoadCreate(r)
      BY <3>2 DEF LoadCreate, Start
    <3>3. ASSUME NEW m \in Members, LoadRollback(r, m) PROVE UNCHANGED rows
      BY <3>3 DEF LoadRollback, Start
    <3>4. ASSUME NEW m \in Members, NEW p \in Proposals, LoadEdit(r, m, p) \/ LoadVote(r, m, p)
          PROVE  UNCHANGED rows
      BY <3>4 DEF LoadEdit, LoadVote, Read, Start
    <3>5. ASSUME NEW m \in Members, NEW p \in Proposals,
                 \/ LoadSubmit(r, m, p) \/ LoadApprove(r, m, p) \/ LoadReject(r, m, p)
                 \/ LoadExtend(r, m, p) \/ LoadFreeze(r, m, p) \/ LoadCancel(r, m, p)
                 \/ LoadForceMerge(r, m, p)
          PROVE  UNCHANGED rows
      BY <3>5 DEF LoadSubmit, LoadApprove, LoadReject, LoadExtend, LoadFreeze, LoadCancel,
                  LoadForceMerge, Read, Start
    <3> QED
      BY <1>1, <3>1, <3>2, <3>3, <3>4, <3>5 DEF Load
  <2> QED
    BY <2>1 DEF Quiet, rows
<1>2. ASSUME NEW p \in Proposals, Sweep(p) PROVE Turns(p) \/ Passes(p)
  <2>1. /\ status[p] = "voting" /\ status' = [status EXCEPT ![p] = Outcome(p)]
        /\ Outcome(p) \in {"passed", "rejected", "expired"}
    BY <1>2, SweepMerges DEF Sweep
  <2>2. CASE Outcome(p) = "passed"
    BY <1>2, <2>1, <2>2, SweepMerges DEF Passes, Publishes
  <2>3. CASE Outcome(p) # "passed"
    BY <1>2, <2>1, <2>3, SweepMerges DEF Turns, Moved, Statuses
  <2> QED
    BY <2>2, <2>3
<1>3. ASSUME \/ \E p \in Proposals : Elapse(p) \/ Age(p)
             \/ \E m \in Moving : ChangeRole(m)
             \/ UNCHANGED vars
      PROVE  Quiet
  BY <1>3 DEF Elapse, Age, ChangeRole, vars, rows, Quiet
<1> QED
  BY <1>1, <1>2, <1>3, CommitMoves DEF Next

-----------------------------------------------------------------------------
(* The lifecycle: counting what a proposal brought about.                  *)

FiniteMerges == \A p \in Proposals : IsFiniteSet(Merges(p))

LEMMA MergesOf ==
  ASSUME NEW p \in Proposals, NEW v
  PROVE  v \in Merges(p) <=> \E u \in Rules : \E i \in DOMAIN history[u] :
                               v = <<u, i>> /\ history[u][i].proposal = p
BY DEF Merges

\* A version published for a proposal is counted for it, and for no other.
LEMMA PublishCounts ==
  ASSUME TypeOK, NEW u \in Rules, NEW row \in RowType, NEW snapshot \in SnapshotType,
         Publish(u, row, snapshot), NEW p \in Proposals
  PROVE  /\ <<u, Len(history[u]) + 1>> \notin Merges(p)
         /\ Merges(p)' = IF snapshot.proposal = p THEN Merges(p) \cup {<<u, Len(history[u]) + 1>>}
                         ELSE Merges(p)
<1> DEFINE n == Len(history[u])
<1>1. /\ history[u] \in Seq(SnapshotType) /\ n \in Nat /\ DOMAIN history[u] = 1..n
      /\ history' = [history EXCEPT ![u] = Append(history[u], snapshot)]
      /\ history \in [Rules -> Seq(SnapshotType)]
  BY DEF TypeOK, Publish
<1>2. /\ \A x \in Rules : x # u => history'[x] = history[x]
      /\ DOMAIN history'[u] = 1..(n + 1)
      /\ \A i \in 1..n : history'[u][i] = history[u][i]
      /\ history'[u][n + 1] = snapshot
  BY <1>1
<1>3. ASSUME NEW v
      PROVE  v \in Merges(p)' <=> \E x \in Rules : \E i \in DOMAIN history'[x] :
                                    v = <<x, i>> /\ history'[x][i].proposal = p
  BY DEF Merges
<1>4. <<u, n + 1>> \notin Merges(p)
  BY <1>1, MergesOf
<1>5. ASSUME NEW v
      PROVE  v \in Merges(p)' <=> v \in Merges(p) \/ (snapshot.proposal = p /\ v = <<u, n + 1>>)
  BY <1>1, <1>2, <1>3, MergesOf
<1> HIDE DEF n
<1> QED
  BY <1>4, <1>5 DEF n

-----------------------------------------------------------------------------
(* The lifecycle: the refinement.                                          *)

amended == [p \in Proposals |-> Cardinality(Merges(p))]

LEMMA CountsMove ==
  ASSUME TypeInv, FiniteMerges, [Next]_vars
  PROVE  /\ FiniteMerges'
         /\ Quiet => UNCHANGED amended
         /\ \A p \in Proposals :
              /\ Turns(p) => UNCHANGED amended
              /\ Passes(p) => amended' = [amended EXCEPT ![p] = @ + 1]
<1>1. CASE UNCHANGED history
  <2>1. \A p \in Proposals : Merges(p)' = Merges(p)
    BY <1>1 DEF Merges
  <2>2. FiniteMerges' /\ UNCHANGED amended
    BY <2>1 DEF FiniteMerges, amended
  <2>3. ASSUME NEW p \in Proposals PROVE ~Passes(p)
    <3>1. SUFFICES ASSUME Passes(p) PROVE FALSE
      OBVIOUS
    <3>2. PICK u \in Rules, row \in RowType, snapshot \in SnapshotType :
            Publish(u, row, snapshot) /\ snapshot.proposal = p
      BY <3>1 DEF Passes, Publishes
    <3>3. history'[u] = Append(history[u], snapshot) /\ history[u] \in Seq(SnapshotType)
      BY <3>2 DEF Publish, TypeInv, TypeOK
    <3>4. Len(Append(history[u], snapshot)) = Len(history[u]) + 1 /\ Len(history[u]) \in Nat
      BY <3>3
    <3> QED
      BY <1>1, <3>3, <3>4
  <2> QED
    BY <2>2, <2>3
<1>2. ASSUME NEW u \in Rules, NEW row \in RowType, NEW snapshot \in SnapshotType,
             Publish(u, row, snapshot)
      PROVE  /\ FiniteMerges'
             /\ snapshot.proposal = None => UNCHANGED amended
             /\ \A p \in Proposals :
                  snapshot.proposal = p => amended' = [amended EXCEPT ![p] = @ + 1]
  <2> DEFINE v == <<u, Len(history[u]) + 1>>
  <2>1. \A p \in Proposals :
          /\ v \notin Merges(p)
          /\ Merges(p)' = IF snapshot.proposal = p THEN Merges(p) \cup {v} ELSE Merges(p)
    BY <1>2, PublishCounts DEF TypeInv
  <2> HIDE DEF v
  <2>2. \A p \in Proposals :
          /\ IsFiniteSet(Merges(p)')
          /\ Cardinality(Merges(p)') = IF snapshot.proposal = p THEN Cardinality(Merges(p)) + 1
                                       ELSE Cardinality(Merges(p))
    BY <2>1, FS_AddElement DEF FiniteMerges
  <2>3. amended' = [p \in Proposals |-> IF snapshot.proposal = p THEN amended[p] + 1 ELSE amended[p]]
    BY <2>2 DEF amended
  <2>4. amended = [p \in Proposals |-> amended[p]]
    BY DEF amended
  <2>5. FiniteMerges'
    BY <2>2 DEF FiniteMerges
  <2> HIDE DEF amended
  <2> QED
    BY <2>3, <2>4, <2>5, NoneAssumption
<1>3. UNCHANGED history \/ \E u \in Rules, row \in RowType, snapshot \in SnapshotType :
                             Publish(u, row, snapshot)
  BY StepMoves DEF Quiet, Turns, Passes, Publishes
<1>4. FiniteMerges'
  BY <1>1, <1>2, <1>3
<1>5. Quiet => UNCHANGED amended
  BY <1>1, <1>2 DEF Quiet, Publishes
<1>6. ASSUME NEW p \in Proposals
      PROVE  /\ Turns(p) => UNCHANGED amended
             /\ Passes(p) => amended' = [amended EXCEPT ![p] = @ + 1]
  BY <1>1, <1>2 DEF Turns, Passes, Publishes
<1> QED
  BY <1>4, <1>5, <1>6

LEMMA LifecycleStep ==
  TypeInv /\ FiniteMerges /\ [Next]_vars => [Lifecycle!Next]_(Lifecycle!lifecycle)
<1> SUFFICES ASSUME TypeInv, FiniteMerges, [Next]_vars
             PROVE  [Lifecycle!Next]_(Lifecycle!lifecycle)
  OBVIOUS
<1>1. CASE Quiet
  BY <1>1, CountsMove DEF Quiet, Lifecycle!lifecycle, amended
<1>2. ASSUME NEW p \in Proposals, Turns(p) PROVE Lifecycle!Next
  <2>1. PICK s \in Statuses : status' = [status EXCEPT ![p] = s] /\ Moved(status[p], s)
    BY <1>2 DEF Turns
  <2>2. UNCHANGED amended
    BY <1>2, CountsMove
  <2>3. ASSUME NEW from, status[p] \in from PROVE Lifecycle!Moves(p, from, s)
    BY <2>1, <2>2, <2>3 DEF Lifecycle!Moves, amended
  <2>4. \/ Lifecycle!Write(p) \/ Lifecycle!Submit(p) \/ Lifecycle!Approve(p)
        \/ Lifecycle!Reject(p) \/ Lifecycle!Expire(p) \/ Lifecycle!Cancel(p)
    BY <2>1, <2>3 DEF Moved, Lifecycle!Write, Lifecycle!Submit, Lifecycle!Approve,
         Lifecycle!Reject, Lifecycle!Expire, Lifecycle!Cancel, Lifecycle!Open
  <2> QED
    BY <2>4 DEF Lifecycle!Next
<1>3. ASSUME NEW p \in Proposals, Passes(p) PROVE Lifecycle!Next
  <2>1. Lifecycle!Pass(p)
    BY <1>3, CountsMove DEF Passes, Lifecycle!Pass, amended
  <2> QED
    BY <2>1 DEF Lifecycle!Next
<1> QED
  BY <1>1, <1>2, <1>3, StepMoves

\* However administrators, the proposer and the sweep race each other, a
\* proposal follows the diagram of proposals.py, is resolved once and for
\* all, and changes the rule book exactly once, when it passes.
THEOREM ProposalsFollowLifecycle == Spec => FollowsLifecycle
<1>1. Init => TypeInv /\ FiniteMerges /\ Lifecycle!Init
  <2> SUFFICES ASSUME Init PROVE TypeInv /\ FiniteMerges /\ Lifecycle!Init
    OBVIOUS
  <2>1. \A u \in Rules : history[u] = <<>>
    BY DEF Init
  <2>2. \A p \in Proposals : Merges(p) = {}
    BY <2>1, MergesOf
  <2>3. FiniteMerges
    BY <2>2, FS_EmptySet DEF FiniteMerges
  <2>4. amended = [p \in Proposals |-> 0]
    BY <2>2, FS_EmptySet DEF amended
  <2> QED
    BY <2>3, <2>4, TypeInit DEF Init, Lifecycle!Init, amended
<1>2. TypeInv /\ FiniteMerges /\ [Next]_vars => (TypeInv /\ FiniteMerges)'
  BY TypeInductive, CountsMove
<1> QED
  BY <1>1, <1>2, LifecycleStep, PTL DEF Spec, FollowsLifecycle, Lifecycle!Spec

=============================================================================
