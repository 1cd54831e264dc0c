------------------------------ MODULE Transfer ------------------------------
(****************************************************************************)
(* Workspace transfer: an export reads the tables of a workspace one after  *)
(* the other, outside a transaction, while its members go on editing it;    *)
(* imports of the archive store its assets first and then insert its rows   *)
(* in one serializable transaction.  One row of each table stands for all.  *)
(****************************************************************************)
EXTENDS Naturals, Sequences, TLC

CONSTANTS Assets,              \* assets of the workspace
          Importers,           \* requests that import the archive under one slug
          NoImporter,
          MaxEdits,            \* bound on what the members do
          MaxTransferFaults    \* bound on failing calls and crashes

ASSUME TransferAssumption ==
  NoImporter \notin Importers /\ MaxEdits \in Nat /\ MaxTransferFaults \in Nat

VARIABLES
  source,     \* the tables of the exported workspace: which row is there, and whether the issue is in the project
  uploaded,   \* of each asset: its object alone, or its row as well
  export,     \* the export request and its archive
  importer,   \* the import requests
  object,     \* what each import has in the store for each asset
  slugOf,     \* the import whose workspace row has the slug, and whether it has committed
  edits, transferFaults

transfer == <<source, uploaded, export, importer, object, slugOf, edits, transferFaults>>

\* WorkspaceTransferTableSpecs, in the order they are read and inserted.
Order == <<"projects", "issues", "comments", "shared_links", "assets">>
SourceRows == [projects : BOOLEAN, issues : BOOLEAN, comments : BOOLEAN, shared_links : BOOLEAN, in_project : BOOLEAN]
ArchiveRows == [projects : BOOLEAN, issues : BOOLEAN, comments : BOOLEAN, shared_links : BOOLEAN,
                in_project : BOOLEAN, assets : SUBSET Assets, payloads : SUBSET Assets]
Nothing == [projects |-> FALSE, issues |-> FALSE, comments |-> FALSE, shared_links |-> FALSE,
            in_project |-> FALSE, assets |-> {}, payloads |-> {}]

TransferTypeOK ==
  /\ source \in SourceRows /\ uploaded \in [Assets -> {"none", "object", "row"}]
  /\ export \in [pc : {"idle", "read", "omit", "validate", "payload", "done", "refused"},
                 next : 1 .. Len(Order) + 1, rows : ArchiveRows]
  /\ importer \in [Importers -> [pc : {"idle", "stage", "begin", "rows", "commit", "cleanup", "imported", "failed", "crashed"},
                                 staged : SUBSET Assets, twice : BOOLEAN, doubt : BOOLEAN, spoilt : BOOLEAN]]
  /\ object \in [Importers -> [Assets -> {"none", "partial", "whole"}]]
  /\ slugOf \in [by : Importers \cup {NoImporter}, committed : BOOLEAN]
  /\ edits \in 0 .. MaxEdits /\ transferFaults \in 0 .. MaxTransferFaults

\* A workspace with an issue; its link may be to a project that was deleted.
ExportInit ==
  /\ source \in {s \in SourceRows : s.issues /\ (s.in_project => s.projects)}
  /\ uploaded \in [Assets -> {"none", "row"}]
  /\ export = [pc |-> "idle", next |-> 1, rows |-> Nothing]

\* An archive of a workspace with an issue, as an export ends with.
ImportInit ==
  /\ source = [projects |-> TRUE, issues |-> TRUE, comments |-> TRUE, shared_links |-> TRUE, in_project |-> TRUE]
  /\ uploaded = [a \in Assets |-> "row"]
  /\ export = [pc |-> "done", next |-> Len(Order) + 1,
                rows |-> [projects |-> TRUE, issues |-> TRUE, comments |-> TRUE, shared_links |-> TRUE,
                          in_project |-> TRUE, assets |-> Assets, payloads |-> Assets]]

TransferInit(twice) ==
  /\ importer \in [Importers -> [pc : {"idle"}, staged : {{}}, twice : twice, doubt : {FALSE}, spoilt : {FALSE}]]
  /\ object = [m \in Importers |-> [a \in Assets |-> "none"]]
  /\ slugOf = [by |-> NoImporter, committed |-> FALSE]
  /\ edits = 0 /\ transferFaults = 0

TransferFault == transferFaults < MaxTransferFaults /\ transferFaults' = transferFaults + 1

-----------------------------------------------------------------------------
(* Members *)

\* Bound: nothing is edited that the export no longer reads.
Edit == edits < MaxEdits /\ export.pc \in {"idle", "read"} /\ edits' = edits + 1

\* Foreign keys: a comment belongs to its issue; an issue leaves a project that
\* is deleted; a shared link keeps the identity of one.
CreateRow ==
  /\ Edit
  /\ source' \in {[source EXCEPT !.projects = TRUE], [source EXCEPT !.issues = TRUE]}
                 \cup (IF source.issues THEN {[source EXCEPT !.comments = TRUE]} ELSE {})
                 \cup (IF source.projects THEN {[source EXCEPT !.shared_links = TRUE]} ELSE {})
                 \cup (IF source.issues /\ source.projects THEN {[source EXCEPT !.in_project = TRUE]} ELSE {})
  /\ source' # source
  /\ UNCHANGED <<uploaded, export, importer, object, slugOf, transferFaults>>

DeleteRow ==
  /\ Edit
  /\ source' \in {[source EXCEPT !.projects = FALSE, !.in_project = FALSE],
                  [source EXCEPT !.issues = FALSE, !.comments = FALSE, !.in_project = FALSE]}
  /\ source' # source
  /\ UNCHANGED <<uploaded, export, importer, object, slugOf, transferFaults>>

\* The object is stored before the row is inserted; the request may end in between.
Upload(a) ==
  /\ Edit /\ uploaded[a] # "row"
  /\ uploaded' = [uploaded EXCEPT ![a] = IF @ = "none" THEN "object" ELSE "row"]
  /\ UNCHANGED <<source, export, importer, object, slugOf, transferFaults>>

-----------------------------------------------------------------------------
(* Export *)

ExportMoves(pc, rows) ==
  /\ export' = [export EXCEPT !.pc = pc, !.rows = rows]
  /\ UNCHANGED <<source, uploaded, importer, object, slugOf, edits, transferFaults>>

StartExport == export.pc = "idle" /\ ExportMoves("read", Nothing)

\* One SELECT, and what it finds is what there is by then.
TableRows ==
  /\ export.pc = "read"
  /\ LET table == Order[export.next] IN
     export' = [pc |-> IF export.next = Len(Order) THEN "omit" ELSE "read", next |-> export.next + 1,
                rows |-> CASE table = "projects" -> [export.rows EXCEPT !.projects = source.projects]
                           [] table = "issues" -> [export.rows EXCEPT !.issues = source.issues, !.in_project = source.in_project]
                           [] table = "comments" -> [export.rows EXCEPT !.comments = source.comments]
                           [] table = "shared_links" -> [export.rows EXCEPT !.shared_links = source.shared_links]
                           [] OTHER -> [export.rows EXCEPT !.assets = {a \in Assets : uploaded[a] = "row"}]]
  /\ UNCHANGED <<source, uploaded, importer, object, slugOf, edits, transferFaults>>

\* A link whose target was not read is left out.
OmitInvalidSharedLinks ==
  /\ export.pc = "omit"
  /\ ExportMoves("validate", [export.rows EXCEPT !.shared_links = @ /\ export.rows.projects])

\* Mutant: only the issue of a comment is looked up.
CommentsResolve(rows) == rows.comments => rows.issues

\* validateArchiveReferences: every reference is to a row of the archive.
ReferencesResolve(rows) ==
  /\ rows.comments => rows.issues
  /\ rows.in_project => rows.projects
  /\ rows.shared_links => rows.projects

ValidateArchiveReferences ==
  /\ export.pc = "validate"
  /\ ExportMoves(IF ReferencesResolve(export.rows) THEN "payload" ELSE "refused", export.rows)

\* The payloads are read last; one that is not in the store ends the export.
ReadPayloads ==
  /\ export.pc = "payload"
  /\ LET found == {a \in export.rows.assets : uploaded[a] # "none"} IN
     ExportMoves(IF found = export.rows.assets THEN "done" ELSE "refused", [export.rows EXCEPT !.payloads = found])

-----------------------------------------------------------------------------
(* Import *)

At(m, pc) == importer[m].pc = pc
ImportMoves(m, pc) == importer' = [importer EXCEPT ![m].pc = pc]
ImportOnly == UNCHANGED <<source, uploaded, export, edits>>
SlugTaken == slugOf.by # NoImporter /\ slugOf.committed

\* SlugExists, the archive is parsed and its references are checked again.
StartImport(m) ==
  /\ At(m, "idle") /\ export.pc = "done"
  /\ ImportMoves(m, IF SlugTaken \/ ~ReferencesResolve(export.rows) THEN "failed" ELSE "stage")
  /\ UNCHANGED <<object, slugOf, transferFaults>> /\ ImportOnly

Unstaged(m) == export.rows.assets \ importer[m].staged

StageAsset(m) ==
  /\ At(m, "stage")
  /\ \E a \in Unstaged(m) :
       /\ object' = [object EXCEPT ![m][a] = "whole"]
       /\ importer' = [importer EXCEPT ![m].staged = @ \cup {a}]
  /\ UNCHANGED <<slugOf, transferFaults>> /\ ImportOnly

AllStaged(m) ==
  /\ At(m, "stage") /\ Unstaged(m) = {}
  /\ ImportMoves(m, "begin")
  /\ UNCHANGED <<object, slugOf, transferFaults>> /\ ImportOnly

\* Put fails and may leave part of the object, which is deleted.
StageFails(m) ==
  /\ At(m, "stage") /\ TransferFault
  /\ \E a \in Unstaged(m), deleted \in BOOLEAN :
       /\ object' = [object EXCEPT ![m][a] = IF deleted THEN "none" ELSE "partial"]
       /\ importer' = [importer EXCEPT ![m].pc = "cleanup", ![m].spoilt = ~deleted]
  /\ UNCHANGED slugOf /\ ImportOnly

\* The workspace row: an insert of the same slug waits for the one before.
InsertWorkspace(m) ==
  /\ At(m, "begin") /\ (slugOf.by = NoImporter \/ slugOf.committed)
  /\ IF slugOf.committed
     THEN ImportMoves(m, "cleanup") /\ UNCHANGED slugOf
     ELSE ImportMoves(m, "rows") /\ slugOf' = [by |-> m, committed |-> FALSE]
  /\ UNCHANGED <<object, transferFaults>> /\ ImportOnly

Released(m) == slugOf' = IF slugOf = [by |-> m, committed |-> FALSE] THEN [slugOf EXCEPT !.by = NoImporter] ELSE slugOf

\* userMapping makes one user of the source owner and of the importer: where the
\* archive has both, their rows collide.
Collide(m) == importer[m].twice /\ export.rows.issues

InsertRows(m) ==
  /\ At(m, "rows")
  /\ IF Collide(m)
     THEN ImportMoves(m, "cleanup") /\ Released(m)
     ELSE ImportMoves(m, "commit") /\ UNCHANGED slugOf
  /\ UNCHANGED <<object, transferFaults>> /\ ImportOnly

Commit(m) ==
  /\ At(m, "commit")
  /\ ImportMoves(m, "imported") /\ slugOf' = [slugOf EXCEPT !.committed = TRUE]
  /\ UNCHANGED <<object, transferFaults>> /\ ImportOnly

\* The transaction fails, or Commit returns an error after it took effect.
ImportFails(m) ==
  /\ importer[m].pc \in {"begin", "rows", "commit"} /\ TransferFault
  /\ \/ ImportMoves(m, "cleanup") /\ Released(m)
     \/ /\ At(m, "commit") /\ slugOf' = [slugOf EXCEPT !.committed = TRUE]
        /\ importer' = [importer EXCEPT ![m].pc = "cleanup", ![m].doubt = TRUE]
  /\ UNCHANGED object /\ ImportOnly

\* Mutant: an asset that could not be staged ends the cleanup.
LastStaged(m) == IF Unstaged(m) = {} THEN importer[m].staged ELSE {}

\* The keys that cleanupAssets goes through.
Cleaned(m) == importer[m].staged

\* Errors of Delete are ignored.
CleanupAssets(m) ==
  /\ At(m, "cleanup")
  /\ object' = [object EXCEPT ![m] = [a \in Assets |-> IF a \in Cleaned(m) THEN "none" ELSE object[m][a]]]
  /\ ImportMoves(m, "failed")
  /\ UNCHANGED <<slugOf, transferFaults>> /\ ImportOnly

CleanupFails(m) ==
  /\ At(m, "cleanup") /\ TransferFault /\ importer[m].staged # {}
  /\ importer' = [importer EXCEPT ![m].pc = "failed", ![m].spoilt = TRUE]
  /\ UNCHANGED <<object, slugOf>> /\ ImportOnly

\* The server dies: the transaction is rolled back, what is staged stays.
ImportCrashes(m) ==
  /\ importer[m].pc \in {"stage", "begin", "rows", "commit", "cleanup"} /\ TransferFault
  /\ ImportMoves(m, "crashed") /\ Released(m)
  /\ UNCHANGED object /\ ImportOnly

ExportNext ==
  \/ CreateRow \/ DeleteRow \/ \E a \in Assets : Upload(a)
  \/ StartExport \/ TableRows \/ OmitInvalidSharedLinks \/ ValidateArchiveReferences \/ ReadPayloads

ImportNext ==
  \E m \in Importers : \/ StartImport(m) \/ StageAsset(m) \/ AllStaged(m) \/ StageFails(m) \/ InsertWorkspace(m)
                      \/ InsertRows(m) \/ Commit(m) \/ ImportFails(m) \/ CleanupAssets(m) \/ CleanupFails(m)
                      \/ ImportCrashes(m)

-----------------------------------------------------------------------------
(* Properties *)

\* An archive that is handed out refers to nothing it does not hold and has the
\* payload of each of its assets, whatever the members did between the reads of
\* its tables.
ArchiveIsClosed ==
  export.pc = "done" =>
    /\ export.rows.comments => export.rows.issues
    /\ (export.rows.in_project \/ export.rows.shared_links) => export.rows.projects
    /\ export.rows.payloads = export.rows.assets

\* An import leaves the whole workspace with every asset in the store, or
\* nothing at all, however imports of one slug, failing calls and rollbacks
\* meet; the exceptions are a crash, an object that could not be deleted, and a
\* Commit whose error came after it took effect.
ImportIsWhole ==
  \A m \in Importers : ~importer[m].doubt =>
    /\ slugOf = [by |-> m, committed |-> TRUE] => \A a \in export.rows.assets : object[m][a] = "whole"
    /\ At(m, "failed") /\ ~importer[m].spoilt => \A a \in Assets : object[m][a] = "none"
    /\ At(m, "imported") <=> slugOf = [by |-> m, committed |-> TRUE]
=============================================================================
