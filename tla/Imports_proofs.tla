--------------------------- MODULE Imports_proofs ---------------------------
(***************************************************************************)
(* Proofs about Imports: IInv is inductive, so a completed import is whole,*)
(* a file counts once, a key has one answer; and Imports implements Intake.*)
(***************************************************************************)
EXTENDS Imports, FiniteSetTheorems, TLAPS

\* What reading a file yields: some of its rows, and as many ids as rows
\* unless an id is repeated.
LEMMA ContentFacts ==
    ASSUME NEW f \in Files, NEW d \in Datasets
    PROVE  /\ AcceptedIds(f, d) \in Wholes
           /\ Len(Content[f].rows) \in Nat
           /\ Cardinality(AcceptedRows(f, d)) \in Nat
           /\ Cardinality(AcceptedRows(f, d)) <= Len(Content[f].rows)
           /\ AcceptedIds(f, d) = {} => ~RepeatsAnId(f, d)
           /\ ~RepeatsAnId(f, d) =>
                  Cardinality(AcceptedIds(f, d)) = Cardinality(AcceptedRows(f, d))
<1> DEFINE rows == AcceptedRows(f, d)
           ids  == AcceptedIds(f, d)
           n    == Len(Content[f].rows)
<1>1. n \in Nat /\ rows \subseteq 1..n
  BY ImportsAssumption DEF AcceptedRows
<1>2. /\ IsFiniteSet(rows)
      /\ Cardinality(rows) \in Nat
      /\ Cardinality(rows) <= n
  <2>1. IsFiniteSet(1..n) /\ Cardinality(1..n) = n
    <3>1. 1 \in Int /\ n \in Int
      BY <1>1
    <3>2. IsFiniteSet(1..n) /\ Cardinality(1..n) = IF 1 > n THEN 0 ELSE n - 1 + 1
      BY ONLY <3>1, FS_Interval
    <3> QED  BY <1>1, <3>2
  <2>2. IsFiniteSet(rows) /\ Cardinality(rows) <= n
    BY <1>1, <2>1, FS_Subset
  <2> QED  BY <2>2, FS_CardinalityType
<1>3. ids \in Wholes
  BY DEF Wholes
<1>4. ids = {} => ~RepeatsAnId(f, d)
  BY DEF AcceptedIds, RepeatsAnId
<1>5. ASSUME ~RepeatsAnId(f, d)
      PROVE  Cardinality(ids) = Cardinality(rows)
  <2> DEFINE Id == [i \in rows |-> Content[f].rows[i].id]
  <2>1. Id \in [rows -> ids]
    BY DEF AcceptedIds
  <2>2. \A i, j \in rows : Id[i] = Id[j] => i = j
    BY <1>5 DEF RepeatsAnId
  <2>3. \A id \in ids : \E i \in rows : Id[i] = id
    BY DEF AcceptedIds
  <2>4. Id \in Bijection(rows, ids)
    BY <2>1, <2>2, <2>3 DEF Bijection, Injection, Surjection, IsInjective
  <2> QED  BY <1>2, <2>4, FS_Bijection DEF ExistsBijection
<1> QED  BY <1>1, <1>2, <1>3, <1>4, <1>5

\* A step of one upload leaves the records of the others alone.
LEMMA OthersKept ==
    ASSUME TypeOK, NEW r \in Requests, Upload(r), NEW s \in Requests, s # r
    PROVE  /\ imports'[s] = imports[s]
           /\ loaded'[s] = loaded[s]
           /\ requests'[s] = requests[s]
<1> USE DEF Goto, Answer, Raise
<1>1. CASE Submit(r)
  BY <1>1 DEF Submit, TypeOK
<1>2. CASE FindByKey(r)
  BY <1>2 DEF FindByKey, TypeOK
<1>3. CASE FindByHash(r)
  BY <1>3 DEF FindByHash, TypeOK
<1>4. CASE Create(r)
  BY <1>4 DEF Create, CreateRow, TypeOK
<1>5. CASE Load(r)
  BY <1>5 DEF Load, InsertRows, TypeOK
<1>6. CASE Save(r)
  BY <1>6 DEF Save, WriteOutcome, TypeOK
<1>7. CASE Audit(r) \/ Die(r)
  BY <1>7 DEF Audit, Die, TypeOK
<1> QED  BY <1>1, <1>2, <1>3, <1>4, <1>5, <1>6, <1>7 DEF Upload

---------------------------------------------------------------------------
(* One lemma per part of the invariant.                                    *)

\* The tables and the requests keep their type.
LEMMA TypeStep ==
    ASSUME TypeOK, \A r \in Requests : RequestOK(r), [Next]_vars
    PROVE  TypeOK'
<1> USE DEF TypeOK
<1>1. ASSUME NEW r \in Requests, Upload(r)
      PROVE  TypeOK'
  <2> DEFINE q == requests[r]
  <2>0. /\ q \in RequestRec /\ imports[r] \in ImportRec
        /\ RequestOK(r)
    BY <1>1
  <2> USE DEF Goto, Answer, Raise, RequestRec, Working
  <2>1. CASE Submit(r)
    <3>1. PICK f \in Files, d \in Declared, k \in Keys \cup {None} :
             requests' = [requests EXCEPT ![r] = [Idle EXCEPT
                 !.pc = IF k = None THEN "hash" ELSE "key",
                 !.file = f, !.dataset = d, !.key = k]]
      BY <2>1 DEF Submit
    <3>2. d \in Datasets
      BY ImportsAssumption
    <3> DEFINE pc == IF k = None THEN "hash" ELSE "key"
    <3>3. pc \in Working
      OBVIOUS
    <3> HIDE DEF pc
    <3>4. [Idle EXCEPT !.pc = pc, !.file = f, !.dataset = d, !.key = k] \in RequestRec
      BY <3>2, <3>3 DEF Idle
    <3> QED  BY <2>0, <2>1, <3>1, <3>4 DEF Submit, pc
  <2>2. CASE FindByKey(r)
    BY <2>0, <2>2 DEF FindByKey, ImportsByKey
  <2>3. CASE FindByHash(r)
    BY <2>0, <2>3 DEF FindByHash
  <2>4. CASE Create(r)
    <3>1. q.file \in Files /\ q.dataset \in Datasets
      BY <2>0, <2>4 DEF Create, RequestOK
    <3>2. imports' \in [Requests -> ImportRec]
      BY <2>0, <2>4, <3>1 DEF Create, CreateRow, NoImport, ImportRec, Statuses
    <3> QED  BY <2>0, <2>4, <3>2 DEF Create
  <2>5. CASE Load(r)
    <3>1. AcceptedIds(q.file, q.dataset) \in Wholes
      BY <2>0, <2>5, ContentFacts DEF Load, RequestOK
    <3>2. loaded' \in [Requests -> SUBSET UNION Wholes]
      BY <2>0, <2>5, <3>1 DEF Load, InsertRows
    <3> QED  BY <2>0, <2>5, <3>2 DEF Load
  <2>6. CASE Save(r)
    <3> DEFINE accepted == Cardinality(AcceptedRows(q.file, q.dataset))
               length   == Len(Content[q.file].rows)
    <3>1. accepted \in Nat /\ length - accepted \in Nat
      <4>1. accepted \in Nat /\ length \in Nat /\ accepted <= length
        BY <2>0, <2>6, ContentFacts DEF Save, RequestOK
      <4> QED  BY <4>1
    <3>2. q.final \in Statuses
      BY <2>0, <2>6 DEF Save, RequestOK, Statuses
    <3>3. imports' \in [Requests -> ImportRec]
      <4> DEFINE a == IF q.final = "completed" THEN accepted ELSE 0
                 b == IF q.final = "completed" THEN length - accepted ELSE 0
      <4>1. a \in Nat /\ b \in Nat
        BY <3>1
      <4>2. WriteOutcome(r, q.final, a, b)
        BY <2>6 DEF Save
      <4> HIDE DEF a, b
      <4> QED  BY <2>0, <3>2, <4>1, <4>2 DEF WriteOutcome, ImportRec
    <3> QED  BY <2>0, <2>6, <3>3 DEF Save
  <2>7. CASE Audit(r) \/ Die(r)
    BY <2>0, <2>7 DEF Audit, Die
  <2> QED  BY <1>1, <2>1, <2>2, <2>3, <2>4, <2>5, <2>6, <2>7 DEF Upload
<1>2. CASE Reset
  <2>1. NoImport \in ImportRec
    BY DEF NoImport, ImportRec, Statuses
  <2> QED  BY <1>2, <2>1, ImportsAssumption DEF Reset
<1>3. CASE UNCHANGED vars
  BY <1>3 DEF vars
<1> QED  BY <1>1, <1>2, <1>3 DEF Next

\* What a request knows of itself, and what its import says, go together.
LEMMA OwnRecordsStep ==
    ASSUME TypeOK, NEW r \in Requests, Upload(r), RequestOK(r), ImportOK(r)
    PROVE  RequestOK(r)' /\ ImportOK(r)'
<1>0. /\ requests \in [Requests -> RequestRec]
      /\ imports \in [Requests -> ImportRec]
      /\ None \notin Requests
  BY ImportsAssumption DEF TypeOK
<1> USE DEF RequestOK, ImportOK, Fresh, Exists, Goto, Answer, Raise, Working, RequestRec, ImportRec
<1>1. CASE Submit(r)
  <2>1. PICK f \in Files, d \in Declared, k \in Keys \cup {None} :
           requests' = [requests EXCEPT ![r] = [Idle EXCEPT
               !.pc = IF k = None THEN "hash" ELSE "key",
               !.file = f, !.dataset = d, !.key = k]]
    BY <1>1 DEF Submit
  <2>2. d \in Datasets
    BY ImportsAssumption
  <2>3. /\ requests'[r].pc \in {"hash", "key"} /\ requests'[r].answer = None
        /\ requests'[r].file = f /\ requests'[r].dataset = d
    BY <1>0, <2>1 DEF Idle
  <2> QED  BY <1>0, <1>1, <2>2, <2>3 DEF Submit
<1>2. CASE FindByKey(r)
  BY <1>0, <1>2 DEF FindByKey
<1>3. CASE FindByHash(r)
  BY <1>0, <1>3 DEF FindByHash
<1>4. CASE Create(r)
  <2>1. CASE KeyIsFree(requests[r].key)
    BY <1>0, <1>4, <2>1, ImportsAssumption DEF Create, CreateRow, NoImport
  <2>2. CASE ~KeyIsFree(requests[r].key)
    BY <1>0, <1>4, <2>2 DEF Create
  <2> QED  BY <2>1, <2>2
<1>5. CASE Load(r)
  <2>1. /\ requests'[r] \in {[requests[r] EXCEPT !.pc = "save"], [requests[r] EXCEPT !.pc = "error"]}
        /\ imports' = imports
        /\ requests[r].pc = "load"
    BY <1>0, <1>5 DEF Load
  <2> QED  BY <1>0, <2>1, ImportsAssumption
<1>6. CASE Save(r)
  BY <1>0, <1>6 DEF Save, WriteOutcome
<1>7. CASE Audit(r) \/ Die(r)
  BY <1>0, <1>7 DEF Audit, Die
<1> QED  BY <1>1, <1>2, <1>3, <1>4, <1>5, <1>6, <1>7 DEF Upload

\* The rows of an import are those of its one commit.
LEMMA OwnRowsStep ==
    ASSUME TypeOK, NEW r \in Requests, Upload(r), RequestOK(r), ImportOK(r), RowsOK(r)
    PROVE  RowsOK(r)'
<1> DEFINE f == requests[r].file
           d == requests[r].dataset
<1>0. /\ requests \in [Requests -> RequestRec]
      /\ imports \in [Requests -> ImportRec]
      /\ loaded \in [Requests -> SUBSET UNION Wholes]
      /\ RequestOK(r) /\ RowsOK(r)
  BY DEF TypeOK
<1> USE DEF RowsOK, Rows, Exists, Goto, Answer, Raise
<1>1. CASE Submit(r)
  <2>1. loaded[r] = {} /\ ~Exists(r)
    BY <1>0, <1>1 DEF Submit, RequestOK, Fresh
  <2>2. requests'[r].pc \in {"hash", "key"}
    BY <1>0, <1>1 DEF Submit, Idle
  <2> QED  BY <1>0, <1>1, <2>1, <2>2 DEF Submit
<1>2. CASE FindByKey(r) \/ FindByHash(r)
  BY <1>0, <1>2 DEF FindByKey, FindByHash, RequestOK, Fresh, RequestRec
<1>4. CASE Create(r)
  <2>1. loaded[r] = {} /\ ~Exists(r)
    BY <1>0, <1>4 DEF Create, RequestOK, Fresh
  <2>2. CASE KeyIsFree(requests[r].key)
    BY <1>0, <1>4, <2>1, <2>2 DEF Create, CreateRow, NoImport, RequestRec
  <2>3. CASE ~KeyIsFree(requests[r].key)
    BY <1>0, <1>4, <2>1, <2>3 DEF Create, RequestRec
  <2> QED  BY <2>2, <2>3
<1>5. CASE Load(r)
  <2>0. /\ f \in Files /\ d \in Datasets /\ requests[r].final = "completed"
        /\ requests[r].pc = "load" /\ loaded[r] = {}
        /\ imports[r].status \in {"absent", "pending"}
        /\ imports' = imports
    BY <1>0, <1>5 DEF Load, RequestOK
  <2>1. CASE AcceptedIds(f, d) = {}
    <3>1. /\ requests'[r] = [requests[r] EXCEPT !.pc = "save"]
          /\ loaded' = loaded
      BY <1>0, <1>5, <2>1 DEF Load
    <3>2. ~RepeatsAnId(f, d)
      BY <2>0, <2>1, ContentFacts
    <3>3. /\ requests'[r].file = f /\ requests'[r].dataset = d
          /\ requests'[r].pc = "save" /\ requests'[r].final = "completed"
      BY <1>0, <2>0, <3>1 DEF RequestRec
    <3> QED  BY <2>0, <2>1, <3>1, <3>2, <3>3
  <2>2. CASE AcceptedIds(f, d) # {} /\ Loadable(r, f, d)
    <3>1. /\ requests'[r] = [requests[r] EXCEPT !.pc = "save"]
          /\ loaded'[r] = AcceptedIds(f, d)
      BY <1>0, <1>5, <2>2 DEF Load, InsertRows
    <3>2. Exists(r) /\ ~RepeatsAnId(f, d)
      BY <2>2 DEF Loadable
    <3> QED  BY <1>0, <2>0, <2>2, <3>1, <3>2 DEF RequestRec
  <2>3. CASE AcceptedIds(f, d) # {} /\ ~Loadable(r, f, d)
    <3>1. /\ requests'[r] = [requests[r] EXCEPT !.pc = "error"]
          /\ loaded' = loaded
      BY <1>0, <1>5, <2>3 DEF Load
    <3> QED  BY <1>0, <2>0, <3>1 DEF RequestRec
  <2> QED  BY <2>1, <2>2, <2>3
<1>6. CASE Save(r)
  <2>1. /\ imports'[r].status = IF Exists(r) THEN requests[r].final ELSE imports[r].status
        /\ requests'[r].pc \in {"audit", "done"}
        /\ requests'[r].file = f /\ requests'[r].dataset = d
        /\ loaded' = loaded
        /\ requests[r].pc = "save"
    BY <1>0, <1>6 DEF Save, WriteOutcome, RequestRec, ImportRec
  <2> QED  BY <1>0, <2>1
<1>7. CASE Audit(r) \/ Die(r)
  BY <1>0, <1>7 DEF Audit, Die, RequestRec
<1> QED  BY <1>1, <1>2, <1>4, <1>5, <1>6, <1>7 DEF Upload

\* Only a save completes an import, and it finds all the rows there.
LEMMA WholeStep ==
    ASSUME IInv, NEW r \in Requests, Upload(r)
    PROVE  CompletedImportIsWhole'
<1>0. /\ requests \in [Requests -> RequestRec]
      /\ imports \in [Requests -> ImportRec]
      /\ loaded \in [Requests -> SUBSET UNION Wholes]
      /\ RequestOK(r) /\ ImportOK(r) /\ RowsOK(r)
      /\ RowsOK(r)'
      /\ CompletedImportIsWhole
  BY OwnRowsStep DEF IInv, TypeOK
<1> SUFFICES ASSUME NEW s \in Requests
             PROVE
        /\ imports'[s].status = "completed" =>
               /\ loaded'[s] = AcceptedIds(imports'[s].file, imports'[s].dataset)
               /\ imports'[s].accepted = Cardinality(loaded'[s])
               /\ imports'[s].accepted + imports'[s].rejected
                      = Len(Content[imports'[s].file].rows)
        /\ imports'[s].status \in {"absent", "failed", "duplicate"} => loaded'[s] = {}
  BY DEF CompletedImportIsWhole
<1>1. CASE s # r
  <2>1. imports'[s] = imports[s] /\ loaded'[s] = loaded[s]
    BY <1>1, OthersKept DEF IInv
  <2> QED  BY <1>0, <2>1 DEF CompletedImportIsWhole
<1>2. CASE s = r
  <2>1. imports'[r].status \in {"absent", "failed", "duplicate"} => loaded'[r] = {}
    BY <1>0 DEF RowsOK, Exists
  <2>2. ASSUME imports'[r].status = "completed"
        PROVE  /\ loaded'[r] = AcceptedIds(imports'[r].file, imports'[r].dataset)
               /\ imports'[r].accepted = Cardinality(loaded'[r])
               /\ imports'[r].accepted + imports'[r].rejected
                      = Len(Content[imports'[r].file].rows)
    <3> USE DEF Goto, Answer, Raise
    <3>1. CASE Save(r)
      <4> DEFINE f == requests[r].file
                 d == requests[r].dataset
      <4>1. /\ Exists(r) /\ requests[r].pc = "save" /\ requests[r].final = "completed"
            /\ loaded' = loaded
            /\ imports'[r].file = imports[r].file
            /\ imports'[r].dataset = imports[r].dataset
            /\ imports'[r].accepted = Cardinality(AcceptedRows(f, d))
            /\ imports'[r].rejected
                  = Len(Content[f].rows) - Cardinality(AcceptedRows(f, d))
        <5>1. Exists(r) /\ requests[r].final = "completed"
          BY <1>0, <2>2, <3>1 DEF Save, WriteOutcome, RowsOK, Exists, ImportRec
        <5> QED  BY <1>0, <3>1, <5>1 DEF Save, WriteOutcome, ImportRec
      <4>2. /\ loaded[r] = AcceptedIds(f, d) /\ ~RepeatsAnId(f, d)
            /\ f \in Files /\ d \in Datasets
            /\ imports[r].file = f /\ imports[r].dataset = d
        BY <1>0, <4>1 DEF RowsOK, Rows, RequestOK, ImportOK
      <4>3. /\ Cardinality(AcceptedIds(f, d)) = Cardinality(AcceptedRows(f, d))
            /\ Cardinality(AcceptedRows(f, d)) \in Nat
            /\ Len(Content[f].rows) \in Nat
        BY <4>2, ContentFacts
      <4> QED  BY <4>1, <4>2, <4>3
    <3>2. CASE Create(r)
      BY <1>0, <2>2, <3>2 DEF Create, CreateRow, NoImport, RequestOK, Fresh, Exists
    <3>3. CASE Load(r)
      BY <1>0, <2>2, <3>3 DEF Load, RowsOK
    <3>4. CASE Submit(r) \/ FindByKey(r) \/ FindByHash(r) \/ Audit(r) \/ Die(r)
      <4>1. imports' = imports /\ loaded' = loaded
        BY <3>4 DEF Submit, FindByKey, FindByHash, Audit, Die
      <4> QED  BY <1>0, <2>2, <4>1 DEF CompletedImportIsWhole
    <3> QED  BY <3>1, <3>2, <3>3, <3>4 DEF Upload
  <2> QED  BY <1>2, <2>1, <2>2
<1> QED  BY <1>1, <1>2

\* The row that create_import inserts.
LEMMA CreatedRow ==
    ASSUME imports \in [Requests -> ImportRec], NEW r \in Requests, NEW f, NEW d, NEW k,
           CreateRow(r, f, d, k)
    PROVE  /\ imports'[r].status = "pending" /\ imports'[r].key = k
           /\ \A s \in Requests : s # r => imports'[s] = imports[s]
<1> DEFINE import == [NoImport EXCEPT !.status = "pending", !.file = f, !.dataset = d, !.key = k]
<1>1. import.status = "pending" /\ import.key = k
  BY DEF NoImport
<1>2. imports' = [imports EXCEPT ![r] = import]
  BY DEF CreateRow
<1> HIDE DEF import
<1> QED  BY <1>1, <1>2

\* A commit is refused when a row of it is there already, and so is a key.
LEMMA DistinctStep ==
    ASSUME IInv, NEW r \in Requests, Upload(r)
    PROVE  NoRowTwice' /\ OneImportPerKey'
<1>0. /\ requests \in [Requests -> RequestRec]
      /\ imports \in [Requests -> ImportRec]
      /\ loaded \in [Requests -> SUBSET UNION Wholes]
      /\ NoRowTwice /\ OneImportPerKey
  BY DEF IInv, TypeOK
<1> USE DEF Goto, Answer, Raise
<1>1. NoRowTwice'
  <2>1. CASE Load(r)
    <3> DEFINE f == requests[r].file
               d == requests[r].dataset
    <3>1. CASE loaded' = loaded
      BY <1>0, <3>1 DEF NoRowTwice
    <3>2. CASE /\ loaded' = [loaded EXCEPT ![r] = AcceptedIds(f, d)]
               /\ \A other \in Requests : loaded[other] \cap AcceptedIds(f, d) = {}
      BY <1>0, <3>2 DEF NoRowTwice
    <3> QED  BY <2>1, <3>1, <3>2 DEF Load, Loadable, InsertRows
  <2>2. CASE loaded' = loaded
    BY <1>0, <2>2 DEF NoRowTwice
  <2> QED  BY <2>1, <2>2
           DEF Upload, Submit, FindByKey, FindByHash, Create, Save, Audit, Die
<1>2. OneImportPerKey'
  <2>1. CASE Create(r)
    <3> DEFINE k == requests[r].key
    <3>1. CASE KeyIsFree(k)
      <4>1. /\ \A s \in Requests : s # r => imports'[s] = imports[s]
            /\ imports'[r].key = k
        BY <1>0, <2>1, <3>1, CreatedRow DEF Create
      <4>2. k = None \/ \A s \in Requests : Exists(s) => imports[s].key # k
        BY <3>1 DEF KeyIsFree, ImportsByKey
      <4> QED  BY <1>0, <4>1, <4>2 DEF OneImportPerKey, Exists
    <3>2. CASE ~KeyIsFree(k)
      BY <1>0, <2>1, <3>2 DEF Create, OneImportPerKey, Exists
    <3> QED  BY <3>1, <3>2
  <2>2. CASE Save(r)
    <3> DEFINE q        == requests[r]
               rows     == Cardinality(AcceptedRows(q.file, q.dataset))
               accepted == IF q.final = "completed" THEN rows ELSE 0
               rejected == IF q.final = "completed" THEN Len(Content[q.file].rows) - rows ELSE 0
    <3>1. WriteOutcome(r, q.final, accepted, rejected)
      BY <2>2 DEF Save
    <3> HIDE DEF accepted, rejected
    <3>2. ASSUME NEW s \in Requests
          PROVE  /\ imports'[s].key = imports[s].key
                 /\ Exists(s)' => Exists(s)
      <4>1. CASE ~Exists(r)
        BY <3>1, <4>1 DEF WriteOutcome, Exists
      <4>2. CASE Exists(r)
        BY <1>0, <3>1, <4>2 DEF WriteOutcome, Exists, ImportRec
      <4> QED  BY <4>1, <4>2
    <3> QED  BY <1>0, <3>2 DEF OneImportPerKey
  <2>3. CASE imports' = imports
    BY <1>0, <2>3 DEF OneImportPerKey, Exists
  <2> QED  BY <2>1, <2>2, <2>3
           DEF Upload, Submit, FindByKey, FindByHash, Load, Audit, Die
<1> QED  BY <1>1, <1>2

\* An answer names an import that was created, under the key that was sent.
LEMMA AnswerStep ==
    ASSUME IInv, NEW r \in Requests, Upload(r), NEW s \in Requests
    PROVE  AnswerOK(s)'
<1>0. /\ requests \in [Requests -> RequestRec]
      /\ \A q \in Requests : RequestOK(q) /\ ImportOK(q) /\ AnswerOK(q)
      /\ None \notin Requests
  BY ImportsAssumption DEF IInv, TypeOK
<1>1. \A q \in Requests \ {r} : requests'[q] = requests[q]
  BY OthersKept DEF IInv
<1> USE DEF Goto, Answer, Raise
<1>2. /\ ~Fresh(r) => /\ ~Fresh(r)'
                      /\ requests'[r].key = requests[r].key
  <2>1. CASE Submit(r) \/ FindByKey(r) \/ FindByHash(r)
    BY <2>1 DEF Submit, FindByKey, FindByHash, Fresh
  <2>2. CASE Create(r)
    BY <2>2 DEF Create, Fresh
  <2>3. CASE Load(r)
    BY <1>0, <2>3 DEF Load, Fresh, RequestRec
  <2>4. CASE Save(r)
    BY <1>0, <2>4 DEF Save, Fresh, RequestRec
  <2>5. CASE Audit(r) \/ Die(r)
    BY <1>0, <2>5 DEF Audit, Die, Fresh, RequestRec
  <2> QED  BY <2>1, <2>2, <2>3, <2>4, <2>5 DEF Upload
<1>3. CASE s # r
  <2>1. requests'[s] = requests[s]
    BY <1>1, <1>3
  <2> DEFINE a == requests[s].answer
  <2>2. a # None => a \in Requests
    BY <1>0 DEF RequestRec
  <2>3. CASE a = r
    BY <1>0, <1>2, <2>1, <2>3 DEF AnswerOK
  <2>4. CASE a # r /\ a # None
    BY <1>0, <1>1, <2>1, <2>2, <2>4 DEF AnswerOK, Fresh
  <2>5. CASE a = None
    BY <2>1, <2>5 DEF AnswerOK
  <2> QED  BY <2>3, <2>4, <2>5
<1>4. CASE s = r
  <2> DEFINE a == requests'[r].answer
  <2>1. CASE Submit(r) \/ FindByHash(r) \/ Create(r) \/ Load(r) \/ Die(r)
    <3>1. a = None
      <4>1. CASE Submit(r)
        BY <1>0, <4>1 DEF Submit, Idle
      <4>2. CASE FindByHash(r) \/ Create(r) \/ Load(r) \/ Die(r)
        BY <1>0, <4>2 DEF FindByHash, Create, Load, Die, RequestOK, Working, RequestRec
      <4> QED  BY <2>1, <4>1, <4>2
    <3> QED  BY <1>4, <3>1 DEF AnswerOK
  <2>2. CASE FindByKey(r)
    <3>1. CASE ImportsByKey(requests[r].key) = {}
      BY <1>0, <1>4, <2>2, <3>1 DEF FindByKey, AnswerOK, RequestOK, Working, RequestRec
    <3>2. CASE ImportsByKey(requests[r].key) # {}
      <4>1. PICK import \in ImportsByKey(requests[r].key) :
               requests' = [requests EXCEPT ![r].pc = "done", ![r].answer = import]
        BY <2>2, <3>2 DEF FindByKey
      <4>2. /\ import \in Requests /\ Exists(import)
            /\ imports[import].key = requests[r].key
        BY DEF ImportsByKey
      <4>3. ~Fresh(import) /\ requests[import].key = requests[r].key
        BY <1>0, <4>2 DEF RequestOK, ImportOK
      <4>4. import # r
        BY <2>2, <4>3 DEF FindByKey, Fresh
      <4>5. /\ requests'[import] = requests[import]
            /\ requests'[r].answer = import
            /\ requests'[r].key = requests[r].key
        BY <1>0, <4>1, <4>2, <4>4 DEF RequestRec
      <4> QED  BY <1>4, <4>3, <4>5 DEF AnswerOK, Fresh
    <3> QED  BY <3>1, <3>2
  <2>3. CASE Save(r) \/ Audit(r)
    <3>1. a \in {None, r} /\ requests'[r].pc \in {"audit", "done"}
      BY <1>0, <2>3 DEF Save, Audit, RequestOK, Working, RequestRec
    <3> QED  BY <1>4, <3>1 DEF AnswerOK, Fresh
  <2> QED  BY <2>1, <2>2, <2>3 DEF Upload
<1> QED  BY <1>3, <1>4

---------------------------------------------------------------------------
(* IInv is inductive.                                                      *)

\* The invariant holds before the first upload.
LEMMA InitIInv == Init => IInv
<1> SUFFICES ASSUME Init
             PROVE  IInv
  OBVIOUS
<1>1. TypeOK
  BY ImportsAssumption
  DEF Init, TypeOK, NoImport, ImportRec, Statuses, Idle, RequestRec, Working
<1>2. \A r \in Requests : RequestOK(r) /\ ImportOK(r) /\ RowsOK(r) /\ AnswerOK(r)
  BY DEF Init, RequestOK, ImportOK, RowsOK, AnswerOK, NoImport, Idle, Fresh, Exists, Working
<1>3. NoRowTwice /\ OneImportPerKey /\ CompletedImportIsWhole
  BY DEF Init, NoRowTwice, OneImportPerKey, CompletedImportIsWhole, NoImport, Exists
<1> QED  BY <1>1, <1>2, <1>3 DEF IInv

\* Every step of an upload, and the reset, keeps the invariant.
LEMMA StepIInv == IInv /\ [Next]_vars => IInv'
<1> SUFFICES ASSUME IInv, [Next]_vars
             PROVE  IInv'
  OBVIOUS
<1>1. TypeOK'
  BY TypeStep DEF IInv
<1>2. ASSUME NEW r \in Requests, Upload(r)
      PROVE  IInv'
  <2>1. ASSUME NEW s \in Requests
        PROVE  (RequestOK(s) /\ ImportOK(s) /\ RowsOK(s))'
    <3>1. CASE s = r
      BY <1>2, <3>1, OwnRecordsStep, OwnRowsStep DEF IInv
    <3>2. CASE s # r
      <4>1. /\ imports'[s] = imports[s]
            /\ loaded'[s] = loaded[s]
            /\ requests'[s] = requests[s]
        BY <1>2, <3>2, OthersKept DEF IInv
      <4>2. RequestOK(s) /\ ImportOK(s) /\ RowsOK(s)
        BY DEF IInv
      <4> QED  BY <4>1, <4>2 DEF RequestOK, ImportOK, RowsOK, Rows, Fresh, Exists
    <3> QED  BY <3>1, <3>2
  <2>2. \A s \in Requests : AnswerOK(s)'
    BY <1>2, AnswerStep
  <2>3. NoRowTwice' /\ OneImportPerKey' /\ CompletedImportIsWhole'
    BY <1>2, DistinctStep, WholeStep
  <2> QED  BY <1>1, <2>1, <2>2, <2>3 DEF IInv
<1>3. CASE Reset
  <2>1. /\ \A r \in Requests : imports'[r].status = "absent" /\ loaded'[r] = {}
        /\ requests' = requests
    BY <1>3 DEF Reset, NoImport
  <2>2. \A r \in Requests : RequestOK(r) /\ AnswerOK(r)
    BY DEF IInv
  <2>3. \A r \in Requests : (RequestOK(r) /\ ImportOK(r) /\ RowsOK(r) /\ AnswerOK(r))'
    BY <2>1, <2>2 DEF RequestOK, ImportOK, RowsOK, AnswerOK, Fresh, Exists
  <2>4. NoRowTwice' /\ OneImportPerKey' /\ CompletedImportIsWhole'
    BY <2>1 DEF NoRowTwice, OneImportPerKey, CompletedImportIsWhole, Exists
  <2> QED  BY <1>1, <2>3, <2>4 DEF IInv
<1>4. CASE UNCHANGED vars
  BY <1>1, <1>4
  DEF IInv, vars, RequestOK, ImportOK, RowsOK, AnswerOK, Rows, Fresh, Exists, NoRowTwice,
      OneImportPerKey, CompletedImportIsWhole
<1> QED  BY <1>2, <1>3, <1>4 DEF Next

\* What an import and its rows are agrees with the step its request has reached
\* in every reachable state, however uploads overlap (imports.py:73).
THEOREM Invariance == Spec => []IInv
  BY InitIInv, StepIInv, PTL DEF Spec

\* Every reachable state of the tables and the requests is well typed.
THEOREM TypeCorrect == Spec => []TypeOK
<1>1. IInv => TypeOK
  BY DEF IInv
<1> QED  BY <1>1, Invariance, PTL

\* A completed import has all its rows, an unfinished one is told apart.
THEOREM CompletedImportsAreWhole == Spec => []CompletedImportIsWhole
<1>1. IInv => CompletedImportIsWhole
  BY DEF IInv
<1> QED  BY <1>1, Invariance, PTL

\* The unique external id keeps one file from being counted twice, whatever the
\* duplicate check missed.
THEOREM FilesCountOnce == Spec => []FileIsLoadedOnce
<1>1. IInv => FileIsLoadedOnce
  <2> SUFFICES ASSUME IInv, NEW r \in Requests, NEW s \in Requests, r # s,
                      Visible(r) # {}, Visible(s) # {},
                      imports[r].dataset = imports[s].dataset,
                      imports[r].file = imports[s].file
               PROVE  FALSE
    BY DEF FileIsLoadedOnce
  <2>1. loaded[r] = loaded[s] /\ loaded[r] # {}
    BY DEF IInv, CompletedImportIsWhole, Visible
  <2> QED  BY <2>1 DEF IInv, NoRowTwice
<1> QED  BY <1>1, Invariance, PTL

\* The unique key makes every answer to one key the same import.
THEOREM KeysHaveOneAnswer == Spec => []OneAnswerPerKey
<1>1. IInv => OneAnswerPerKey
  <2> SUFFICES ASSUME IInv, NEW r \in Requests, NEW s \in Requests,
                      requests[r].key = requests[s].key, requests[r].key # None,
                      requests[r].answer # None, requests[s].answer # None,
                      Exists(requests[r].answer), Exists(requests[s].answer)
               PROVE  requests[r].answer = requests[s].answer
    BY DEF OneAnswerPerKey
  <2> DEFINE a == requests[r].answer
             b == requests[s].answer
  <2>1. a \in Requests /\ b \in Requests
    BY DEF IInv, TypeOK, RequestRec
  <2>2. /\ requests[a].key = requests[r].key
        /\ requests[b].key = requests[r].key
    BY DEF IInv, AnswerOK
  <2>3. imports[a].key = requests[r].key /\ imports[b].key = requests[r].key
    BY <2>1, <2>2 DEF IInv, ImportOK
  <2> QED  BY <2>1, <2>3 DEF IInv, OneImportPerKey
<1> QED  BY <1>1, Invariance, PTL

---------------------------------------------------------------------------
(* Imports implements Intake.                                              *)

Published == [r \in Requests |-> Visible(r)]

\* What a step of one upload makes visible: nothing, or a whole file that no
\* other upload has a row of.
LEMMA UploadPublishes ==
    ASSUME IInv, NEW r \in Requests, Upload(r)
    PROVE  \/ Published' = Published
           \/ \E rows \in Wholes :
                 /\ Visible(r) = {}
                 /\ \A other \in Requests : Visible(other) \cap rows = {}
                 /\ Published' = [Published EXCEPT ![r] = rows]
<1>0. /\ requests \in [Requests -> RequestRec]
      /\ imports \in [Requests -> ImportRec]
      /\ loaded \in [Requests -> SUBSET UNION Wholes]
      /\ RequestOK(r) /\ RowsOK(r) /\ ImportOK(r)
  BY DEF IInv, TypeOK
<1>1. \A s \in Requests \ {r} : Visible(s)' = Visible(s)
  BY OthersKept DEF IInv, Visible
<1>2. CASE Visible(r)' = Visible(r)
  BY <1>1, <1>2 DEF Published
<1>3. CASE Visible(r)' # Visible(r)
  <2> DEFINE rows == loaded[r]
  <2>1. /\ imports[r].status = "pending"
        /\ imports'[r].status = "completed"
        /\ loaded' = loaded
        /\ requests[r].pc = "save" /\ requests[r].final = "completed"
    <3> USE DEF Goto, Answer, Raise
    <3>1. CASE Save(r)
      <4>1. requests[r].pc = "save" /\ loaded' = loaded
        BY <3>1 DEF Save
      <4>2. Exists(r)
        BY <1>3, <3>1, <4>1 DEF Save, WriteOutcome, Visible
      <4>3. imports[r].status = "pending"
        BY <1>0, <4>1, <4>2 DEF RowsOK, Exists
      <4>4. imports'[r].status = requests[r].final
        BY <1>0, <3>1, <4>2 DEF Save, WriteOutcome, ImportRec
      <4> QED  BY <1>3, <4>1, <4>3, <4>4 DEF Visible
    <3>2. CASE Create(r)
      <4>1. CASE imports' = imports
        BY <1>3, <3>2, <4>1 DEF Create, Visible
      <4>2. CASE imports'[r].status = "pending"
        BY <1>0, <1>3, <3>2, <4>2 DEF Create, RequestOK, Fresh, Exists, Visible
      <4> QED  BY <1>0, <3>2, <4>1, <4>2, CreatedRow DEF Create
    <3>3. CASE Load(r)
      BY <1>0, <1>3, <3>3 DEF Load, RowsOK, Visible
    <3>4. CASE Submit(r) \/ FindByKey(r) \/ FindByHash(r) \/ Audit(r) \/ Die(r)
      BY <1>3, <3>4 DEF Submit, FindByKey, FindByHash, Audit, Die, Visible
    <3> QED  BY <3>1, <3>2, <3>3, <3>4 DEF Upload
  <2>2. rows \in Wholes
    <3>1. /\ requests[r].file \in Files /\ requests[r].dataset \in Datasets
          /\ rows = AcceptedIds(requests[r].file, requests[r].dataset)
      BY <1>0, <2>1 DEF RequestOK, RowsOK, Rows, Exists
    <3> QED  BY <3>1, ContentFacts
  <2>3. Visible(r) = {} /\ Visible(r)' = rows
    BY <2>1 DEF Visible
  <2>4. \A other \in Requests : Visible(other) \cap rows = {}
    BY <2>3 DEF IInv, NoRowTwice, Visible
  <2>5. Published' = [Published EXCEPT ![r] = rows]
    BY <1>1, <2>3 DEF Published
  <2> QED  BY <2>2, <2>3, <2>4, <2>5
<1> QED  BY <1>2, <1>3

\* However uploads overlap, raise, end with the process or are reset, what the
\* engine reads changes by whole files, each row at most once.
THEOREM ImportsImplementIntake == Spec => ImplementsIntake
<1>1. Init => Abstract!Init
  BY DEF Init, Abstract!Init, Visible, NoImport
<1>2. ASSUME IInv, [Next]_vars
      PROVE  [Abstract!Next]_Published
  <2>1. ASSUME NEW r \in Requests, Upload(r)
        PROVE  [Abstract!Next]_Published
    <3>1. CASE Published' = Published
      BY <3>1
    <3>2. CASE \E rows \in Wholes :
                  /\ Visible(r) = {}
                  /\ \A other \in Requests : Visible(other) \cap rows = {}
                  /\ Published' = [Published EXCEPT ![r] = rows]
      BY <3>2 DEF Published, Abstract!Next, Abstract!Publish
    <3> QED  BY <1>2, <2>1, <3>1, <3>2, UploadPublishes
  <2>2. CASE Reset
    BY <2>2 DEF Reset, Visible, NoImport, Abstract!Next, Abstract!Withdraw
  <2>3. CASE UNCHANGED vars
    BY <2>3 DEF vars, Visible, Published
  <2> QED  BY <1>2, <2>1, <2>2, <2>3 DEF Next
<1> QED  BY <1>1, <1>2, Invariance, PTL DEF Spec, ImplementsIntake, Abstract!Spec, Published
=============================================================================
