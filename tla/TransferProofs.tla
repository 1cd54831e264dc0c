--------------------------- MODULE TransferProofs ---------------------------
(****************************************************************************)
(* What an export hands out, and what an import leaves behind.  That an     *)
(* import is whole or leaves nothing is not inductive: it depends on which  *)
(* import has the slug at each of its steps, and on every object in the     *)
(* store being one that the import remembers to have staged.                *)
(****************************************************************************)
EXTENDS Application, TLAPS

ExportPcs == {"idle", "read", "omit", "validate", "payload", "done", "refused"}
ImportPcs == {"idle", "stage", "begin", "rows", "commit", "cleanup", "imported", "failed", "crashed"}
ImportRows == [pc : ImportPcs, staged : SUBSET Assets, twice : BOOLEAN, doubt : BOOLEAN, spoilt : BOOLEAN]
Slugs == [by : Importers \cup {NoImporter}, committed : BOOLEAN]

ExportTyped == source \in SourceRows /\ export \in [pc : ExportPcs, next : Int, rows : ArchiveRows]

ExportInv ==
  /\ ExportTyped
  /\ export.pc = "payload" => ReferencesResolve(export.rows)
  /\ ArchiveIsClosed

-----------------------------------------------------------------------------
(* Export *)

LEMMA ExportStarts ==
  ASSUME ExportInit \/ ImportInit
  PROVE  ExportInv
<1>1. Nothing \in ArchiveRows
  BY DEF Nothing, ArchiveRows
<1>2. CASE ExportInit
  BY <1>1, <1>2 DEF ExportInit, ExportInv, ExportTyped, ArchiveIsClosed, ExportPcs
<1>3. CASE ImportInit
  <2>1. Len(Order) + 1 \in Int
    BY DEF Order
  <2>2. source \in SourceRows
    BY <1>3 DEF ImportInit, SourceRows
  <2>3. export.rows \in ArchiveRows
    BY <1>3 DEF ImportInit, ArchiveRows
  <2>4. export \in [pc : ExportPcs, next : Int, rows : ArchiveRows] /\ export.pc = "done"
    BY <1>3, <2>1, <2>3 DEF ImportInit, ExportPcs
  <2>5. ArchiveIsClosed
    BY <1>3 DEF ImportInit, ArchiveIsClosed
  <2> QED
    BY <2>2, <2>4, <2>5 DEF ExportInv, ExportTyped
<1> QED
  BY <1>2, <1>3

\* The export goes on to pc with these rows.
LEMMA ExportMoved ==
  ASSUME ExportInv, NEW pc \in ExportPcs, NEW rows \in ArchiveRows, ExportMoves(pc, rows),
         pc = "payload" => ReferencesResolve(rows),
         pc = "done" => ReferencesResolve(rows) /\ rows.payloads = rows.assets
  PROVE  ExportInv'
<1>1. export' \in [pc : ExportPcs, next : Int, rows : ArchiveRows] /\ export'.pc = pc /\ export'.rows = rows
  BY DEF ExportInv, ExportTyped, ExportMoves
<1>2. source' = source
  BY DEF ExportMoves
<1> QED
  BY <1>1, <1>2 DEF ExportInv, ExportTyped, ArchiveIsClosed, ReferencesResolve

LEMMA EditKeeps ==
  ASSUME ExportInv, CreateRow \/ DeleteRow \/ \E a \in Assets : Upload(a)
  PROVE  ExportInv'
<1>1. export' = export
  BY DEF CreateRow, DeleteRow, Upload
<1>2. source' \in SourceRows
  <2>1. CASE CreateRow
    BY <2>1 DEF CreateRow, ExportInv, ExportTyped, SourceRows
  <2>2. CASE DeleteRow
    BY <2>2 DEF DeleteRow, ExportInv, ExportTyped, SourceRows
  <2>3. CASE \E a \in Assets : Upload(a)
    BY <2>3 DEF Upload, ExportInv, ExportTyped
  <2> QED
    BY <2>1, <2>2, <2>3
<1> QED
  BY <1>1, <1>2 DEF ExportInv, ExportTyped, ArchiveIsClosed

LEMMA TableRowsKeeps ==
  ASSUME ExportInv, TableRows
  PROVE  ExportInv'
<1> DEFINE table == Order[export.next]
<1>1. export'.rows \in ArchiveRows
  <2>1. CASE table = "projects"
    BY <2>1 DEF TableRows, ExportInv, ExportTyped, ArchiveRows, SourceRows
  <2>2. CASE table = "issues"
    BY <2>2 DEF TableRows, ExportInv, ExportTyped, ArchiveRows, SourceRows
  <2>3. CASE table = "comments"
    BY <2>3 DEF TableRows, ExportInv, ExportTyped, ArchiveRows, SourceRows
  <2>4. CASE table = "shared_links"
    BY <2>4 DEF TableRows, ExportInv, ExportTyped, ArchiveRows, SourceRows
  <2>5. CASE table \notin {"projects", "issues", "comments", "shared_links"}
    BY <2>5 DEF TableRows, ExportInv, ExportTyped, ArchiveRows, SourceRows
  <2> QED
    BY <2>1, <2>2, <2>3, <2>4, <2>5
<1>2. /\ export'.pc \in {"read", "omit"} /\ export'.next \in Int
      /\ export' = [pc |-> export'.pc, next |-> export'.next, rows |-> export'.rows]
      /\ source' = source
  BY DEF TableRows, ExportInv, ExportTyped
<1> QED
  BY <1>1, <1>2 DEF ExportInv, ExportTyped, ArchiveIsClosed, ExportPcs

LEMMA ExportKeeps ==
  ASSUME ExportInv, ExportNext
  PROVE  ExportInv'
<1>1. CASE CreateRow \/ DeleteRow \/ \E a \in Assets : Upload(a)
  BY <1>1, EditKeeps
<1>2. CASE StartExport
  <2>1. Nothing \in ArchiveRows
    BY DEF Nothing, ArchiveRows
  <2> QED
    BY <1>2, <2>1, ExportMoved DEF StartExport, ExportPcs
<1>3. CASE TableRows
  BY <1>3, TableRowsKeeps
<1>4. CASE OmitInvalidSharedLinks
  <2> DEFINE rows == [export.rows EXCEPT !.shared_links = export.rows.shared_links /\ export.rows.projects]
  <2>1. rows \in ArchiveRows
    BY DEF ExportInv, ExportTyped, ArchiveRows
  <2>2. ExportMoves("validate", rows)
    BY <1>4 DEF OmitInvalidSharedLinks
  <2> HIDE DEF rows
  <2> QED
    BY <2>1, <2>2, ExportMoved DEF ExportPcs
<1>5. CASE ValidateArchiveReferences
  <2> DEFINE pc == IF ReferencesResolve(export.rows) THEN "payload" ELSE "refused"
  <2>1. pc \in ExportPcs /\ pc # "done" /\ (pc = "payload" => ReferencesResolve(export.rows))
    BY DEF ExportPcs
  <2>2. ExportMoves(pc, export.rows) /\ export.rows \in ArchiveRows
    BY <1>5 DEF ValidateArchiveReferences, ExportInv, ExportTyped
  <2> HIDE DEF pc
  <2> QED
    BY <2>1, <2>2, ExportMoved
<1>6. CASE ReadPayloads
  <2> DEFINE found == {a \in export.rows.assets : uploaded[a] # "none"}
             rows == [export.rows EXCEPT !.payloads = found]
             pc == IF found = export.rows.assets THEN "done" ELSE "refused"
  <2>1. rows \in ArchiveRows /\ rows.payloads = found /\ rows.assets = export.rows.assets
    BY DEF ExportInv, ExportTyped, ArchiveRows
  <2>2. ReferencesResolve(rows)
    BY <1>6 DEF ReadPayloads, ExportInv, ExportTyped, ArchiveRows, ReferencesResolve
  <2>3. pc \in ExportPcs /\ pc # "payload" /\ (pc = "done" => found = export.rows.assets)
    BY DEF ExportPcs
  <2>4. ExportMoves(pc, rows)
    BY <1>6 DEF ReadPayloads
  <2> HIDE DEF pc, rows, found
  <2> QED
    BY <2>1, <2>2, <2>3, <2>4, ExportMoved
<1> QED
  BY <1>1, <1>2, <1>3, <1>4, <1>5, <1>6 DEF ExportNext
-----------------------------------------------------------------------------
(* Import *)

ImportersTyped ==
  /\ importer \in [Importers -> ImportRows]
  /\ object \in [Importers -> [Assets -> {"none", "partial", "whole"}]]
  /\ slugOf \in Slugs

InTransaction == {"rows", "commit"}
Clean == {"idle", "stage", "begin", "rows", "commit"}

\* Who has the slug: an open transaction, or an import that is over.
SlugRight(m) ==
  /\ slugOf = [by |-> m, committed |-> FALSE] <=> importer[m].pc \in InTransaction
  /\ ~importer[m].doubt => (At(m, "imported") <=> slugOf = [by |-> m, committed |-> TRUE])
  /\ importer[m].doubt => importer[m].pc \in {"cleanup", "failed", "crashed"}

\* Every object in the store is one that the import has staged, until it is spoilt.
ObjectsRight(m) ==
  /\ At(m, "idle") => importer[m].staged = {}
  /\ importer[m].pc \in {"stage", "begin", "rows", "commit", "imported"} =>
       \A a \in importer[m].staged : object[m][a] = "whole"
  /\ importer[m].pc \in {"begin", "rows", "commit", "imported"} => export.rows.assets \subseteq importer[m].staged
  /\ importer[m].pc \in Clean => ~importer[m].spoilt
  /\ ~importer[m].spoilt /\ importer[m].pc \in Clean \cup {"cleanup"} =>
       \A a \in Assets \ importer[m].staged : object[m][a] = "none"
  /\ ~importer[m].spoilt /\ At(m, "failed") => \A a \in Assets : object[m][a] = "none"

ImportInv == ImportersTyped /\ \A m \in Importers : SlugRight(m) /\ ObjectsRight(m)

LEMMA ImportWhole == ImportInv => ImportIsWhole
<1> SUFFICES ASSUME ImportInv, NEW m \in Importers, ~importer[m].doubt
             PROVE  /\ slugOf = [by |-> m, committed |-> TRUE] => \A a \in export.rows.assets : object[m][a] = "whole"
                    /\ At(m, "failed") /\ ~importer[m].spoilt => \A a \in Assets : object[m][a] = "none"
                    /\ At(m, "imported") <=> slugOf = [by |-> m, committed |-> TRUE]
  BY DEF ImportIsWhole
<1>1. SlugRight(m) /\ ObjectsRight(m)
  BY DEF ImportInv
<1> QED
  BY <1>1 DEF SlugRight, ObjectsRight, At

LEMMA ImportStarts ==
  ASSUME NEW twice \in SUBSET BOOLEAN, TransferInit(twice)
  PROVE  ImportInv /\ \A m \in Importers : At(m, "idle")
<1>1. importer \in [Importers -> ImportRows]
  BY DEF TransferInit, ImportRows, ImportPcs
<1>2. object \in [Importers -> [Assets -> {"none", "partial", "whole"}]] /\ slugOf \in Slugs
  BY DEF TransferInit, Slugs
<1>3. ASSUME NEW m \in Importers PROVE At(m, "idle") /\ SlugRight(m) /\ ObjectsRight(m)
  <2>1. /\ importer[m].pc = "idle" /\ importer[m].staged = {}
        /\ ~importer[m].doubt /\ ~importer[m].spoilt
    BY <1>3 DEF TransferInit
  <2>2. slugOf.by # m
    BY <1>3, TransferAssumption DEF TransferInit
  <2>3. \A a \in Assets : object[m][a] = "none"
    BY <1>3 DEF TransferInit
  <2> QED
    BY <2>1, <2>2, <2>3 DEF SlugRight, ObjectsRight, At, Clean, InTransaction
<1> QED
  BY <1>1, <1>2, <1>3 DEF ImportInv, ImportersTyped

\* What a step of one import may do to the slug: take it, give it back, or commit it.
SlugMoves(m) ==
  \/ slugOf' = slugOf
  \/ slugOf.by \in {m, NoImporter} /\ slugOf'.by \in {m, NoImporter}

\* A step of import m leaves the rest of the store and the other requests alone.
OnlyMoves(m) ==
  /\ ImportersTyped' /\ export' = export
  /\ \A n \in Importers \ {m} : importer'[n] = importer[n] /\ object'[n] = object[n]
  /\ SlugMoves(m)

LEMMA OthersStay ==
  ASSUME ImportInv, NEW m \in Importers, OnlyMoves(m), SlugRight(m)', ObjectsRight(m)'
  PROVE  ImportInv'
<1>1. ASSUME NEW n \in Importers \ {m} PROVE SlugRight(n)' /\ ObjectsRight(n)'
  <2>1. SlugRight(n) /\ ObjectsRight(n)
    BY <1>1 DEF ImportInv
  <2>2. importer'[n] = importer[n] /\ object'[n] = object[n] /\ export' = export
    BY <1>1 DEF OnlyMoves
  <2>3. \A c \in BOOLEAN : slugOf' = [by |-> n, committed |-> c] <=> slugOf = [by |-> n, committed |-> c]
    <3>1. CASE slugOf' = slugOf
      BY <3>1
    <3>2. CASE slugOf.by \in {m, NoImporter} /\ slugOf'.by \in {m, NoImporter}
      BY <1>1, <3>2, TransferAssumption
    <3> QED
      BY <3>1, <3>2 DEF OnlyMoves, SlugMoves
  <2>4. SlugRight(n)'
    BY <2>1, <2>2, <2>3 DEF SlugRight, At
  <2>5. ObjectsRight(n)'
    BY <2>1, <2>2 DEF ObjectsRight, At
  <2> QED
    BY <2>4, <2>5
<1> QED
  BY <1>1 DEF ImportInv, OnlyMoves

\* Import m goes to pc; what it has staged and stored stays.
LEMMA ImportMoved ==
  ASSUME ImportInv, NEW m \in Importers, NEW pc \in ImportPcs, ImportMoves(m, pc), UNCHANGED object, ImportOnly,
         SlugMoves(m), slugOf' \in Slugs
  PROVE  /\ OnlyMoves(m)
         /\ importer'[m].pc = pc /\ importer'[m].staged = importer[m].staged
         /\ importer'[m].doubt = importer[m].doubt /\ importer'[m].spoilt = importer[m].spoilt
<1>1. importer \in [Importers -> ImportRows] /\ object' = object /\ export' = export
  BY DEF ImportInv, ImportersTyped, ImportOnly
<1>2. importer' \in [Importers -> ImportRows]
  BY <1>1 DEF ImportMoves, ImportRows
<1>3. /\ importer'[m].pc = pc /\ importer'[m].staged = importer[m].staged
      /\ importer'[m].doubt = importer[m].doubt /\ importer'[m].spoilt = importer[m].spoilt
  BY <1>1 DEF ImportMoves, ImportRows
<1>4. \A n \in Importers \ {m} : importer'[n] = importer[n]
  BY <1>1 DEF ImportMoves
<1> QED
  BY <1>1, <1>2, <1>3, <1>4 DEF OnlyMoves, ImportInv, ImportersTyped

LEMMA StartImportKeeps ==
  ASSUME ImportInv, NEW m \in Importers, StartImport(m)
  PROVE  ImportInv'
<1> DEFINE pc == IF SlugTaken \/ ~ReferencesResolve(export.rows) THEN "failed" ELSE "stage"
<1>1. pc \in {"failed", "stage"} /\ ImportMoves(m, pc) /\ At(m, "idle")
  BY DEF StartImport
<1>2. UNCHANGED <<object, slugOf>> /\ ImportOnly /\ SlugMoves(m) /\ slugOf' \in Slugs
  BY DEF StartImport, SlugMoves, ImportInv, ImportersTyped
<1>3. SlugRight(m) /\ ObjectsRight(m)
  BY DEF ImportInv
<1> HIDE DEF pc
<1>4. /\ OnlyMoves(m) /\ importer'[m].pc = pc /\ importer'[m].staged = importer[m].staged
      /\ importer'[m].doubt = importer[m].doubt /\ importer'[m].spoilt = importer[m].spoilt
  BY <1>1, <1>2, ImportMoved DEF ImportPcs
<1>5. SlugRight(m)'
  BY <1>1, <1>2, <1>3, <1>4 DEF SlugRight, At, InTransaction
<1>6. ObjectsRight(m)'
  BY <1>1, <1>2, <1>3, <1>4 DEF ObjectsRight, At, Clean
<1> QED
  BY <1>4, <1>5, <1>6, OthersStay

LEMMA AllStagedKeeps ==
  ASSUME ImportInv, NEW m \in Importers, AllStaged(m)
  PROVE  ImportInv'
<1>1. ImportMoves(m, "begin") /\ At(m, "stage") /\ Unstaged(m) = {}
  BY DEF AllStaged
<1>2. UNCHANGED <<object, slugOf>> /\ ImportOnly /\ export' = export /\ SlugMoves(m) /\ slugOf' \in Slugs
  BY DEF AllStaged, SlugMoves, ImportInv, ImportersTyped, ImportOnly
<1>3. SlugRight(m) /\ ObjectsRight(m)
  BY DEF ImportInv
<1>4. /\ OnlyMoves(m) /\ importer'[m].pc = "begin" /\ importer'[m].staged = importer[m].staged
      /\ importer'[m].doubt = importer[m].doubt /\ importer'[m].spoilt = importer[m].spoilt
  BY <1>1, <1>2, ImportMoved DEF ImportPcs
<1>5. SlugRight(m)'
  BY <1>1, <1>2, <1>3, <1>4 DEF SlugRight, At, InTransaction
<1>6. export.rows.assets \subseteq importer[m].staged
  BY <1>1 DEF Unstaged
<1>7. ObjectsRight(m)'
  BY <1>1, <1>2, <1>3, <1>4, <1>6 DEF ObjectsRight, At, Clean
<1> QED
  BY <1>4, <1>5, <1>7, OthersStay

LEMMA StageAssetKeeps ==
  ASSUME ImportInv, NEW m \in Importers, StageAsset(m), export.rows.assets \subseteq Assets
  PROVE  ImportInv'
<1>1. PICK a \in Unstaged(m) : /\ object' = [object EXCEPT ![m][a] = "whole"]
                               /\ importer' = [importer EXCEPT ![m].staged = @ \cup {a}]
  BY DEF StageAsset
<1>2. At(m, "stage") /\ slugOf' = slugOf /\ export' = export /\ a \in Assets /\ a \notin importer[m].staged
  BY DEF StageAsset, ImportOnly, Unstaged
<1>3. ImportersTyped /\ SlugRight(m) /\ ObjectsRight(m)
  BY DEF ImportInv
<1>4. /\ importer' \in [Importers -> ImportRows]
      /\ importer'[m].staged = importer[m].staged \cup {a} /\ importer'[m].pc = importer[m].pc
      /\ importer'[m].doubt = importer[m].doubt /\ importer'[m].spoilt = importer[m].spoilt
      /\ \A n \in Importers \ {m} : importer'[n] = importer[n]
  BY <1>1, <1>2, <1>3 DEF ImportersTyped, ImportRows
<1>5. /\ object' \in [Importers -> [Assets -> {"none", "partial", "whole"}]]
      /\ object'[m][a] = "whole" /\ \A b \in Assets \ {a} : object'[m][b] = object[m][b]
      /\ \A n \in Importers \ {m} : object'[n] = object[n]
  BY <1>1, <1>2, <1>3 DEF ImportersTyped
<1>6. OnlyMoves(m)
  BY <1>2, <1>3, <1>4, <1>5 DEF OnlyMoves, SlugMoves, ImportersTyped
<1>7. SlugRight(m)'
  BY <1>2, <1>3, <1>4 DEF SlugRight, At
<1>8. importer[m].staged \subseteq Assets
  BY <1>3 DEF ImportersTyped, ImportRows
<1>9. \A b \in importer'[m].staged : object'[m][b] = "whole"
  BY <1>2, <1>3, <1>4, <1>5, <1>8 DEF ObjectsRight, At
<1>10. ObjectsRight(m)'
  BY <1>2, <1>3, <1>4, <1>5, <1>9 DEF ObjectsRight, At, Clean
<1> QED
  BY <1>6, <1>7, <1>10, OthersStay

LEMMA StageFailsKeeps ==
  ASSUME ImportInv, NEW m \in Importers, StageFails(m), export.rows.assets \subseteq Assets
  PROVE  ImportInv'
<1>1. PICK a \in Unstaged(m), deleted \in BOOLEAN :
        /\ object' = [object EXCEPT ![m][a] = IF deleted THEN "none" ELSE "partial"]
        /\ importer' = [importer EXCEPT ![m].pc = "cleanup", ![m].spoilt = ~deleted]
  BY DEF StageFails
<1>2. At(m, "stage") /\ slugOf' = slugOf /\ export' = export /\ a \in Assets /\ a \notin importer[m].staged
  BY DEF StageFails, ImportOnly, Unstaged
<1>3. ImportersTyped /\ SlugRight(m) /\ ObjectsRight(m)
  BY DEF ImportInv
<1>4. /\ importer' \in [Importers -> ImportRows]
      /\ importer'[m].staged = importer[m].staged /\ importer'[m].pc = "cleanup"
      /\ importer'[m].doubt = importer[m].doubt /\ importer'[m].spoilt = ~deleted
      /\ \A n \in Importers \ {m} : importer'[n] = importer[n]
  BY <1>1, <1>2, <1>3 DEF ImportersTyped, ImportRows, ImportPcs
<1>5. /\ object' \in [Importers -> [Assets -> {"none", "partial", "whole"}]]
      /\ deleted => object'[m][a] = "none"
      /\ \A b \in Assets \ {a} : object'[m][b] = object[m][b]
      /\ \A n \in Importers \ {m} : object'[n] = object[n]
  BY <1>1, <1>2, <1>3 DEF ImportersTyped
<1>6. OnlyMoves(m)
  BY <1>2, <1>3, <1>4, <1>5 DEF OnlyMoves, SlugMoves, ImportersTyped
<1>7. SlugRight(m)'
  BY <1>2, <1>3, <1>4 DEF SlugRight, At, InTransaction
<1>8. ObjectsRight(m)'
  BY <1>2, <1>3, <1>4, <1>5 DEF ObjectsRight, At, Clean
<1> QED
  BY <1>6, <1>7, <1>8, OthersStay

\* Only the transaction that has the slug gives it back.
LEMMA ReleasedMoves ==
  ASSUME ImportInv, NEW m \in Importers, Released(m)
  PROVE  /\ SlugMoves(m) /\ slugOf' \in Slugs
         /\ slugOf' # [by |-> m, committed |-> FALSE]
         /\ slugOf' = [by |-> m, committed |-> TRUE] <=> slugOf = [by |-> m, committed |-> TRUE]
<1>1. slugOf \in Slugs
  BY DEF ImportInv, ImportersTyped
<1>2. CASE slugOf = [by |-> m, committed |-> FALSE]
  <2>1. slugOf' = [by |-> NoImporter, committed |-> FALSE]
    BY <1>2 DEF Released
  <2> QED
    BY <1>2, <2>1, TransferAssumption DEF SlugMoves, Slugs
<1>3. CASE slugOf # [by |-> m, committed |-> FALSE]
  BY <1>1, <1>3 DEF Released, SlugMoves
<1> QED
  BY <1>2, <1>3

LEMMA InsertWorkspaceKeeps ==
  ASSUME ImportInv, NEW m \in Importers, InsertWorkspace(m)
  PROVE  ImportInv'
<1>1. At(m, "begin") /\ object' = object /\ export' = export /\ ImportOnly
  BY DEF InsertWorkspace, ImportOnly
<1>2. SlugRight(m) /\ ObjectsRight(m) /\ slugOf \in Slugs
  BY DEF ImportInv, ImportersTyped
<1>3. CASE slugOf.committed
  <2>1. ImportMoves(m, "cleanup") /\ slugOf' = slugOf
    BY <1>3 DEF InsertWorkspace
  <2>2. /\ OnlyMoves(m) /\ importer'[m].pc = "cleanup" /\ importer'[m].staged = importer[m].staged
        /\ importer'[m].doubt = importer[m].doubt /\ importer'[m].spoilt = importer[m].spoilt
    BY <1>1, <1>2, <2>1, ImportMoved DEF ImportPcs, SlugMoves
  <2>3. SlugRight(m)'
    BY <1>1, <1>2, <2>1, <2>2 DEF SlugRight, At, InTransaction
  <2>4. ObjectsRight(m)'
    BY <1>1, <1>2, <2>2 DEF ObjectsRight, At, Clean
  <2> QED
    BY <2>2, <2>3, <2>4, OthersStay
<1>4. CASE ~slugOf.committed
  <2>1. ImportMoves(m, "rows") /\ slugOf' = [by |-> m, committed |-> FALSE] /\ slugOf.by = NoImporter
    BY <1>4 DEF InsertWorkspace
  <2>2. SlugMoves(m) /\ slugOf' \in Slugs
    BY <2>1 DEF SlugMoves, Slugs
  <2>3. /\ OnlyMoves(m) /\ importer'[m].pc = "rows" /\ importer'[m].staged = importer[m].staged
        /\ importer'[m].doubt = importer[m].doubt /\ importer'[m].spoilt = importer[m].spoilt
    BY <1>1, <2>1, <2>2, ImportMoved DEF ImportPcs
  <2>4. SlugRight(m)'
    BY <1>1, <1>2, <2>1, <2>3 DEF SlugRight, At, InTransaction
  <2>5. ObjectsRight(m)'
    BY <1>1, <1>2, <2>3 DEF ObjectsRight, At, Clean
  <2> QED
    BY <2>3, <2>4, <2>5, OthersStay
<1> QED
  BY <1>3, <1>4

\* The transaction of an import is rolled back.
LEMMA RolledBackKeeps ==
  ASSUME ImportInv, NEW m \in Importers, NEW pc \in {"cleanup", "crashed"},
         importer[m].pc \in {"stage", "begin", "rows", "commit", "cleanup"}, ImportMoves(m, pc), Released(m), UNCHANGED object, ImportOnly
  PROVE  ImportInv'
<1>1. SlugMoves(m) /\ slugOf' \in Slugs /\ slugOf' # [by |-> m, committed |-> FALSE]
  BY ReleasedMoves
<1>2. slugOf' = [by |-> m, committed |-> TRUE] <=> slugOf = [by |-> m, committed |-> TRUE]
  BY ReleasedMoves
<1>3. SlugRight(m) /\ ObjectsRight(m) /\ export' = export /\ object' = object
  BY DEF ImportInv, ImportOnly
<1>4. /\ OnlyMoves(m) /\ importer'[m].pc = pc /\ importer'[m].staged = importer[m].staged
      /\ importer'[m].doubt = importer[m].doubt /\ importer'[m].spoilt = importer[m].spoilt
  BY <1>1, ImportMoved DEF ImportPcs
<1>5. SlugRight(m)'
  BY <1>1, <1>2, <1>3, <1>4 DEF SlugRight, At, InTransaction
<1>6. ObjectsRight(m)'
  BY <1>3, <1>4 DEF ObjectsRight, At, Clean
<1> QED
  BY <1>4, <1>5, <1>6, OthersStay

LEMMA InsertRowsKeeps ==
  ASSUME ImportInv, NEW m \in Importers, InsertRows(m)
  PROVE  ImportInv'
<1>1. At(m, "rows") /\ object' = object /\ export' = export /\ ImportOnly
  BY DEF InsertRows, ImportOnly
<1>2. CASE Collide(m)
  BY <1>1, <1>2, RolledBackKeeps DEF InsertRows, At
<1>3. CASE ~Collide(m)
  <2>1. ImportMoves(m, "commit") /\ slugOf' = slugOf
    BY <1>3 DEF InsertRows
  <2>2. SlugRight(m) /\ ObjectsRight(m) /\ slugOf \in Slugs
    BY DEF ImportInv, ImportersTyped
  <2>3. /\ OnlyMoves(m) /\ importer'[m].pc = "commit" /\ importer'[m].staged = importer[m].staged
        /\ importer'[m].doubt = importer[m].doubt /\ importer'[m].spoilt = importer[m].spoilt
    BY <1>1, <2>1, <2>2, ImportMoved DEF ImportPcs, SlugMoves
  <2>4. SlugRight(m)'
    BY <1>1, <2>1, <2>2, <2>3 DEF SlugRight, At, InTransaction
  <2>5. ObjectsRight(m)'
    BY <1>1, <2>2, <2>3 DEF ObjectsRight, At, Clean
  <2> QED
    BY <2>3, <2>4, <2>5, OthersStay
<1> QED
  BY <1>2, <1>3

LEMMA CommitKeeps ==
  ASSUME ImportInv, NEW m \in Importers, Commit(m)
  PROVE  ImportInv'
<1>1. /\ At(m, "commit") /\ object' = object /\ export' = export /\ ImportOnly
      /\ ImportMoves(m, "imported")
  BY DEF Commit, ImportOnly
<1>2. SlugRight(m) /\ ObjectsRight(m) /\ slugOf = [by |-> m, committed |-> FALSE]
  BY <1>1 DEF ImportInv, SlugRight, At, InTransaction
<1>3. slugOf' = [by |-> m, committed |-> TRUE]
  BY <1>2 DEF Commit
<1>4. SlugMoves(m) /\ slugOf' \in Slugs
  BY <1>2, <1>3 DEF SlugMoves, Slugs
<1>5. /\ OnlyMoves(m) /\ importer'[m].pc = "imported" /\ importer'[m].staged = importer[m].staged
      /\ importer'[m].doubt = importer[m].doubt /\ importer'[m].spoilt = importer[m].spoilt
  BY <1>1, <1>4, ImportMoved DEF ImportPcs
<1>6. SlugRight(m)'
  BY <1>1, <1>2, <1>3, <1>5 DEF SlugRight, At, InTransaction
<1>7. ObjectsRight(m)'
  BY <1>1, <1>2, <1>5 DEF ObjectsRight, At, Clean
<1> QED
  BY <1>5, <1>6, <1>7, OthersStay

LEMMA ImportFailsKeeps ==
  ASSUME ImportInv, NEW m \in Importers, ImportFails(m)
  PROVE  ImportInv'
<1>1. importer[m].pc \in {"begin", "rows", "commit"} /\ object' = object /\ export' = export /\ ImportOnly
  BY DEF ImportFails, ImportOnly
<1>2. CASE ImportMoves(m, "cleanup") /\ Released(m)
  BY <1>1, <1>2, RolledBackKeeps
<1>3. CASE /\ At(m, "commit") /\ slugOf' = [slugOf EXCEPT !.committed = TRUE]
           /\ importer' = [importer EXCEPT ![m].pc = "cleanup", ![m].doubt = TRUE]
  <2>1. ImportersTyped /\ SlugRight(m) /\ ObjectsRight(m) /\ slugOf = [by |-> m, committed |-> FALSE]
    BY <1>3 DEF ImportInv, SlugRight, At, InTransaction
  <2>2. slugOf' = [by |-> m, committed |-> TRUE]
    BY <1>3, <2>1
  <2>3. /\ importer' \in [Importers -> ImportRows]
        /\ importer'[m].staged = importer[m].staged /\ importer'[m].pc = "cleanup"
        /\ importer'[m].doubt /\ importer'[m].spoilt = importer[m].spoilt
        /\ \A n \in Importers \ {m} : importer'[n] = importer[n]
    BY <1>3, <2>1 DEF ImportersTyped, ImportRows, ImportPcs
  <2>4. OnlyMoves(m)
    BY <1>1, <2>1, <2>2, <2>3 DEF OnlyMoves, SlugMoves, ImportersTyped, Slugs
  <2>5. SlugRight(m)'
    BY <2>2, <2>3 DEF SlugRight, At, InTransaction
  <2>6. ObjectsRight(m)'
    BY <1>1, <2>1, <2>3 DEF ObjectsRight, At, Clean
  <2> QED
    BY <2>4, <2>5, <2>6, OthersStay
<1> QED
  BY <1>2, <1>3 DEF ImportFails

LEMMA CleanupAssetsKeeps ==
  ASSUME ImportInv, NEW m \in Importers, CleanupAssets(m)
  PROVE  ImportInv'
<1>1. /\ At(m, "cleanup") /\ slugOf' = slugOf /\ export' = export
      /\ object' = [object EXCEPT ![m] = [a \in Assets |-> IF a \in importer[m].staged THEN "none" ELSE object[m][a]]]
      /\ importer' = [importer EXCEPT ![m].pc = "failed"]
  BY DEF CleanupAssets, Cleaned, ImportMoves, ImportOnly
<1>2. ImportersTyped /\ SlugRight(m) /\ ObjectsRight(m)
  BY DEF ImportInv
<1>3. /\ importer' \in [Importers -> ImportRows]
      /\ importer'[m].staged = importer[m].staged /\ importer'[m].pc = "failed"
      /\ importer'[m].doubt = importer[m].doubt /\ importer'[m].spoilt = importer[m].spoilt
      /\ \A n \in Importers \ {m} : importer'[n] = importer[n]
  BY <1>1, <1>2 DEF ImportersTyped, ImportRows, ImportPcs
<1>4. /\ object' \in [Importers -> [Assets -> {"none", "partial", "whole"}]]
      /\ \A a \in Assets : object'[m][a] = IF a \in importer[m].staged THEN "none" ELSE object[m][a]
      /\ \A n \in Importers \ {m} : object'[n] = object[n]
  <2> DEFINE cleaned == [a \in Assets |-> IF a \in importer[m].staged THEN "none" ELSE object[m][a]]
  <2>1. cleaned \in [Assets -> {"none", "partial", "whole"}]
    BY <1>2 DEF ImportersTyped
  <2>2. object' = [object EXCEPT ![m] = cleaned]
    BY <1>1
  <2>3. \A a \in Assets : cleaned[a] = IF a \in importer[m].staged THEN "none" ELSE object[m][a]
    OBVIOUS
  <2> HIDE DEF cleaned
  <2> QED
    BY <1>2, <2>1, <2>2, <2>3 DEF ImportersTyped
<1>5. OnlyMoves(m)
  BY <1>1, <1>2, <1>3, <1>4 DEF OnlyMoves, SlugMoves, ImportersTyped
<1>6. SlugRight(m)'
  BY <1>1, <1>2, <1>3 DEF SlugRight, At, InTransaction
<1>7. ObjectsRight(m)'
  BY <1>1, <1>2, <1>3, <1>4 DEF ObjectsRight, At, Clean
<1> QED
  BY <1>5, <1>6, <1>7, OthersStay

LEMMA CleanupFailsKeeps ==
  ASSUME ImportInv, NEW m \in Importers, CleanupFails(m)
  PROVE  ImportInv'
<1>1. /\ At(m, "cleanup") /\ slugOf' = slugOf /\ object' = object /\ export' = export
      /\ importer' = [importer EXCEPT ![m].pc = "failed", ![m].spoilt = TRUE]
  BY DEF CleanupFails, ImportOnly
<1>2. ImportersTyped /\ SlugRight(m)
  BY DEF ImportInv
<1>3. /\ importer' \in [Importers -> ImportRows]
      /\ importer'[m].pc = "failed" /\ importer'[m].doubt = importer[m].doubt /\ importer'[m].spoilt
      /\ \A n \in Importers \ {m} : importer'[n] = importer[n]
  BY <1>1, <1>2 DEF ImportersTyped, ImportRows, ImportPcs
<1>4. OnlyMoves(m)
  BY <1>1, <1>2, <1>3 DEF OnlyMoves, SlugMoves, ImportersTyped
<1>5. SlugRight(m)'
  BY <1>1, <1>2, <1>3 DEF SlugRight, At, InTransaction
<1>6. ObjectsRight(m)'
  BY <1>3 DEF ObjectsRight, At, Clean
<1> QED
  BY <1>4, <1>5, <1>6, OthersStay

LEMMA ImportKeeps ==
  ASSUME ImportInv, ImportNext, export.rows.assets \subseteq Assets
  PROVE  ImportInv'
<1>1. PICK m \in Importers :
        \/ StartImport(m) \/ StageAsset(m) \/ AllStaged(m) \/ StageFails(m) \/ InsertWorkspace(m)
        \/ InsertRows(m) \/ Commit(m) \/ ImportFails(m) \/ CleanupAssets(m) \/ CleanupFails(m)
        \/ ImportCrashes(m)
  BY DEF ImportNext
<1>2. CASE ImportCrashes(m)
  BY <1>2, RolledBackKeeps DEF ImportCrashes
<1> QED
  BY <1>1, <1>2, StartImportKeeps, StageAssetKeeps, AllStagedKeeps, StageFailsKeeps, InsertWorkspaceKeeps,
     InsertRowsKeeps, CommitKeeps, ImportFailsKeeps, CleanupAssetsKeeps, CleanupFailsKeeps

-----------------------------------------------------------------------------
(* The specification *)

\* No import runs where there is an export: the archive of an import stays as it is.
NoImportBesides == ~On("import") => \A m \in Importers : At(m, "idle")

TransferInv == ExportInv /\ ImportInv /\ NoImportBesides

LEMMA TransferStarts == AppInit => TransferInv
<1> SUFFICES ASSUME AppInit PROVE TransferInv
  OBVIOUS
<1>1. /\ ExportInit \/ ImportInit
      /\ TransferInit(BOOLEAN) \/ TransferInit({FALSE})
  BY DEF AppInit
<1>2. BOOLEAN \in SUBSET BOOLEAN /\ {FALSE} \in SUBSET BOOLEAN
  OBVIOUS
<1> QED
  BY <1>1, <1>2, ExportStarts, ImportStarts DEF TransferInv, NoImportBesides

LEMMA TransferRests ==
  ASSUME TransferInv, UNCHANGED <<transfer, area>>
  PROVE  TransferInv'
<1>1. /\ source' = source /\ export' = export /\ importer' = importer /\ object' = object
      /\ slugOf' = slugOf /\ area' = area
  BY DEF transfer
<1>2. ExportInv'
  BY <1>1 DEF TransferInv, ExportInv, ExportTyped, ArchiveIsClosed
<1>3. ImportInv'
  BY <1>1 DEF TransferInv, ImportInv, ImportersTyped, SlugRight, ObjectsRight, At
<1>4. NoImportBesides'
  BY <1>1 DEF TransferInv, NoImportBesides, On, At
<1> QED
  BY <1>2, <1>3, <1>4 DEF TransferInv

\* Where there is an export, no import has begun.
LEMMA ExportAlone ==
  ASSUME TransferInv, On("export"), ExportNext, UNCHANGED area
  PROVE  TransferInv'
<1>1. ExportInv'
  BY ExportKeeps DEF TransferInv
<1>2. importer' = importer /\ object' = object /\ slugOf' = slugOf
  BY DEF ExportNext, CreateRow, DeleteRow, Upload, StartExport, TableRows, OmitInvalidSharedLinks,
         ValidateArchiveReferences, ReadPayloads, ExportMoves
<1>3. \A m \in Importers : At(m, "idle")
  BY DEF TransferInv, NoImportBesides, On
<1>4. ImportInv'
  BY <1>2, <1>3 DEF TransferInv, ImportInv, ImportersTyped, SlugRight, ObjectsRight, At
<1>5. NoImportBesides'
  BY <1>2, <1>3 DEF NoImportBesides, At
<1> QED
  BY <1>1, <1>4, <1>5 DEF TransferInv

LEMMA ImportAlone ==
  ASSUME TransferInv, On("import"), ImportNext, UNCHANGED area
  PROVE  TransferInv'
<1>1. source' = source /\ export' = export
  BY DEF ImportNext, StartImport, StageAsset, AllStaged, StageFails, InsertWorkspace, InsertRows, Commit,
         ImportFails, CleanupAssets, CleanupFails, ImportCrashes, ImportOnly
<1>2. ExportInv'
  BY <1>1 DEF TransferInv, ExportInv, ExportTyped, ArchiveIsClosed
<1>3. export.rows.assets \subseteq Assets
  BY DEF TransferInv, ExportInv, ExportTyped, ArchiveRows
<1>4. ImportInv'
  BY <1>3, ImportKeeps DEF TransferInv
<1>5. NoImportBesides'
  BY DEF NoImportBesides, On
<1> QED
  BY <1>2, <1>4, <1>5 DEF TransferInv

LEMMA TransferNext ==
  ASSUME TransferInv, [AppNext]_app
  PROVE  TransferInv'
<1>1. CASE On("export") /\ ExportNext /\ UNCHANGED area
  BY <1>1, ExportAlone
<1>2. CASE On("import") /\ ImportNext /\ UNCHANGED area
  BY <1>2, ImportAlone
<1>3. CASE UNCHANGED <<transfer, area>>
  BY <1>3, TransferRests
<1> QED
  BY <1>1, <1>2, <1>3 DEF AppNext, app

LEMMA TransferInvariant == AppSpec => []TransferInv
<1> QED
  BY TransferStarts, TransferNext, PTL DEF AppSpec

\* An archive that is handed out refers to nothing it does not hold, whatever
\* the members did between the reads of its tables: exportWorkspaceTables and
\* validateArchiveReferences, for any number of edits and assets.
THEOREM ExportsAreClosed == AppSpec => []ArchiveIsClosed
<1>1. TransferInv => ArchiveIsClosed
  BY DEF TransferInv, ExportInv
<1> QED
  BY <1>1, TransferInvariant, PTL

\* An import is whole or leaves nothing: Import, stageAssets and cleanupAssets
\* of the workspace transfer, for any number of imports, assets and failures.
THEOREM ImportsAreWhole == AppSpec => []ImportIsWhole
<1>1. TransferInv => ImportIsWhole
  BY ImportWhole DEF TransferInv
<1> QED
  BY <1>1, TransferInvariant, PTL
-----------------------------------------------------------------------------
(* Types: what the invariant does not say of the variables *)

\* The export reads one table after the other, and stops at the last.
TransferBounds ==
  /\ uploaded \in [Assets -> {"none", "object", "row"}]
  /\ export.next \in 1 .. 6 /\ (export.pc \in {"idle", "read"} => export.next \in 1 .. 5)
  /\ edits \in 0 .. MaxEdits /\ transferFaults \in 0 .. MaxTransferFaults

LEMMA TablesInOrder == Len(Order) = 5
  BY DEF Order

LEMMA BoundsStart == AppInit => TransferBounds
<1> SUFFICES ASSUME AppInit PROVE TransferBounds
  OBVIOUS
<1>1. ExportInit \/ ImportInit
  BY DEF AppInit
<1>2. edits = 0 /\ transferFaults = 0
  BY DEF AppInit, TransferInit
<1>3. edits \in 0 .. MaxEdits /\ transferFaults \in 0 .. MaxTransferFaults
  BY <1>2, TransferAssumption
<1>4. uploaded \in [Assets -> {"none", "object", "row"}]
  BY <1>1 DEF ExportInit, ImportInit
<1>5. export.next \in 1 .. 6 /\ (export.pc \in {"idle", "read"} => export.next \in 1 .. 5)
  BY <1>1, TablesInOrder DEF ExportInit, ImportInit
<1> QED
  BY <1>3, <1>4, <1>5 DEF TransferBounds

LEMMA ExportMoveBounded ==
  ASSUME TransferInv, TransferBounds, NEW pc \in ExportPcs, NEW rows, ExportMoves(pc, rows),
         pc = "read" => export.pc = "idle", pc # "idle"
  PROVE  TransferBounds'
<1>1. export'.pc = pc /\ export'.next = export.next /\ UNCHANGED <<uploaded, edits, transferFaults>>
  BY DEF ExportMoves, TransferInv, ExportInv, ExportTyped
<1> QED
  BY <1>1 DEF TransferBounds

LEMMA ExportBounded ==
  ASSUME TransferInv, TransferBounds, ExportNext
  PROVE  TransferBounds'
<1>1. CASE CreateRow \/ DeleteRow
  BY <1>1, TransferAssumption DEF CreateRow, DeleteRow, Edit, TransferBounds
<1>2. CASE \E a \in Assets : Upload(a)
  <2>1. edits' \in 0 .. MaxEdits /\ UNCHANGED <<export, transferFaults>>
    BY <1>2, TransferAssumption DEF Upload, Edit, TransferBounds
  <2>2. uploaded' \in [Assets -> {"none", "object", "row"}]
    BY <1>2 DEF Upload, TransferBounds
  <2> QED
    BY <2>1, <2>2 DEF TransferBounds
<1>3. CASE StartExport
  BY <1>3, ExportMoveBounded DEF StartExport, ExportPcs
<1>4. CASE TableRows
  <2>1. export.next \in 1 .. 5
    BY <1>4 DEF TableRows, TransferBounds
  <2>2. /\ export'.next = export.next + 1
        /\ export'.pc = IF export.next = 5 THEN "omit" ELSE "read"
        /\ UNCHANGED <<uploaded, edits, transferFaults>>
    BY <1>4, TablesInOrder DEF TableRows
  <2>3. export'.next \in 1 .. 6 /\ (export'.pc \in {"idle", "read"} => export'.next \in 1 .. 5)
    BY <2>1, <2>2
  <2> QED
    BY <2>2, <2>3 DEF TransferBounds
<1>5. CASE OmitInvalidSharedLinks \/ ValidateArchiveReferences \/ ReadPayloads
  <2>1. PICK pc \in {"validate", "payload", "refused", "done"} : \E rows : ExportMoves(pc, rows)
    BY <1>5 DEF OmitInvalidSharedLinks, ValidateArchiveReferences, ReadPayloads
  <2> QED
    BY <2>1, ExportMoveBounded DEF ExportPcs
<1> QED
  BY <1>1, <1>2, <1>3, <1>4, <1>5 DEF ExportNext

LEMMA ImportBounded ==
  ASSUME TransferBounds, ImportNext
  PROVE  TransferBounds'
<1>1. UNCHANGED <<uploaded, export, edits>> /\ (transferFaults' = transferFaults \/ TransferFault)
  BY DEF ImportNext, StartImport, StageAsset, AllStaged, StageFails, InsertWorkspace, InsertRows, Commit,
         ImportFails, CleanupAssets, CleanupFails, ImportCrashes, ImportOnly
<1> QED
  BY <1>1, TransferAssumption DEF TransferBounds, TransferFault

LEMMA TransferIsTyped == AppSpec => []TransferTypeOK
<1>1. TransferInv /\ TransferBounds /\ [AppNext]_app => TransferBounds'
  <2> SUFFICES ASSUME TransferInv, TransferBounds, [AppNext]_app PROVE TransferBounds'
    OBVIOUS
  <2>1. CASE UNCHANGED transfer
    BY <2>1 DEF transfer, TransferBounds
  <2> QED
    BY <2>1, ExportBounded, ImportBounded DEF AppNext, app
<1>2. TransferInv /\ TransferBounds => TransferTypeOK
  <2> SUFFICES ASSUME TransferInv, TransferBounds PROVE TransferTypeOK
    OBVIOUS
  <2>1. export \in [pc : ExportPcs, next : 1 .. 6, rows : ArchiveRows]
    BY DEF TransferInv, ExportInv, ExportTyped, TransferBounds
  <2> QED
    BY <2>1, TablesInOrder DEF TransferTypeOK, TransferInv, ExportInv, ExportTyped, ImportInv, ImportersTyped, TransferBounds,
                ExportPcs, ImportPcs, ImportRows, Slugs
<1> QED
  BY <1>1, <1>2, BoundsStart, TransferInvariant, PTL DEF AppSpec
=============================================================================
