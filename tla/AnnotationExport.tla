-------------------------- MODULE AnnotationExport --------------------------
(***************************************************************************)
(* The exports of page 5 while the study goes on: export_raw_annotations_  *)
(* jsonl, export_duplicate_reviews_jsonl and export_adjudications_jsonl of *)
(* pilot_service.py, with record_export of the store.  An export reads the *)
(* rows in one transaction, writes <destination>.tmp, renames it over the  *)
(* destination and records the hash of what it wrote, in four steps that   *)
(* a second browser session or a failure can fall between.                 *)
(***************************************************************************)
EXTENDS PilotReview

CONSTANTS Exporters,    \* browser sessions on page 5
          Mixed         \* a file whose text is of two exports

Kinds == {"raw", "duplicate", "adjudication"}

\* A running export: its step, the rows it has read, the file it writes.
ExportRecord == [pc : {"open", "write", "replace", "record"}, kind : Kinds,
                 rows : SUBSET Nat, file : Nat]

ASSUME ExportAssumption == None \notin ExportRecord

VARIABLES
    exporting,      \* per exporter None, or the export that runs
    inodes,         \* contents of the files ever created: sets of rows, or Mixed
    tmp, dest,      \* the file each name stands for, by kind of export; 0 for none
    recorded,       \* export_events; its primary key is the hash of the content
    disturbed,      \* kinds with overlapping exports, or one that failed unrecorded
    exports         \* counter of the bound

fileVars == <<exporting, inodes, tmp, dest, recorded, disturbed, exports>>
allVars == <<vars, fileVars>>

ExportInit ==
    /\ Init
    /\ exporting = [x \in Exporters |-> None]
    /\ inodes = <<>>
    /\ tmp = [k \in Kinds |-> 0]
    /\ dest = [k \in Kinds |-> 0]
    /\ recorded = {}
    /\ disturbed = {}
    /\ exports = 0

\* The latest event of every assignment; of the duplicate reviews, which the
\* study leaves out, there is none; the latest decision of every adjudication.
Rows(kind) ==
    CASE kind = "raw" -> LatestEvents
      [] kind = "duplicate" -> {}
      [] kind = "adjudication" ->
            {k \in DOMAIN decisions :
                \A j \in DOMAIN decisions : decisions[j].article = decisions[k].article => j <= k}

\* Only the raw export refuses to write nothing.
Begin(x) ==
    /\ exports < study.exports
    /\ exporting[x] = None
    /\ \E kind \in Kinds :
        /\ kind = "raw" => Rows(kind) # {}
        /\ exporting' = [exporting EXCEPT ![x] =
               [pc |-> "open", kind |-> kind, rows |-> Rows(kind), file |-> 0]]
    /\ exports' = exports + 1
    /\ UNCHANGED <<vars, inodes, tmp, dest, recorded, disturbed>>

At(x, pc) == exporting[x] # None /\ exporting[x].pc = pc

Overlaps(x) ==
    \E y \in Exporters \ {x} :
        exporting[y] # None /\ exporting[y].kind = exporting[x].kind /\ exporting[y].pc # "open"

\* write_text opens the temporary file: one that is there is emptied, whoever
\* writes it.
Open(x) ==
    /\ At(x, "open")
    /\ LET kind == exporting[x].kind
           file == IF tmp[kind] = 0 THEN Len(inodes) + 1 ELSE tmp[kind]
       IN  /\ inodes' = IF tmp[kind] = 0 THEN Append(inodes, {}) ELSE [inodes EXCEPT ![file] = {}]
           /\ tmp' = [tmp EXCEPT ![kind] = file]
           /\ exporting' = [exporting EXCEPT ![x].pc = "write", ![x].file = file]
           /\ disturbed' = IF Overlaps(x) THEN disturbed \cup {kind} ELSE disturbed
    /\ UNCHANGED <<vars, dest, recorded, exports>>

\* Text written from the start of a file that holds old: the rest of a longer
\* old text stays.
Overwritten(old, new) == IF old \in {{}, new} THEN {new} ELSE {new, Mixed}

Write(x) ==
    /\ At(x, "write")
    /\ \E content \in Overwritten(inodes[exporting[x].file], exporting[x].rows) :
        inodes' = [inodes EXCEPT ![exporting[x].file] = content]
    /\ exporting' = [exporting EXCEPT ![x].pc = "replace"]
    /\ UNCHANGED <<vars, tmp, dest, recorded, disturbed, exports>>

\* os.replace; another export may have moved the temporary file away.
Replace(x) ==
    /\ At(x, "replace")
    /\ LET kind == exporting[x].kind
       IN  IF tmp[kind] = 0
           THEN /\ exporting' = [exporting EXCEPT ![x] = None]
                /\ UNCHANGED <<tmp, dest>>
           ELSE /\ dest' = [dest EXCEPT ![kind] = tmp[kind]]
                /\ tmp' = [tmp EXCEPT ![kind] = 0]
                /\ exporting' = [exporting EXCEPT ![x].pc = "record"]
    /\ UNCHANGED <<vars, inodes, recorded, disturbed, exports>>

\* A bug: the record is made from the rows as they are after the rename.
RecordOfNow(x) ==
    /\ At(x, "record")
    /\ recorded' = recorded \cup {[kind |-> exporting[x].kind, content |-> Rows(exporting[x].kind)]}
    /\ exporting' = [exporting EXCEPT ![x] = None]
    /\ UNCHANGED <<vars, inodes, tmp, dest, disturbed, exports>>

\* record_export: content that is recorded already, for whatever kind, violates
\* the primary key, after the file has been replaced.
Record(x) ==
    /\ At(x, "record")
    /\ LET entry == [kind |-> exporting[x].kind, content |-> exporting[x].rows]
       IN  IF \E e \in recorded : e.content = entry.content
           THEN /\ disturbed' = IF entry \in recorded THEN disturbed
                                ELSE disturbed \cup {entry.kind}
                /\ UNCHANGED recorded
           ELSE recorded' = recorded \cup {entry} /\ UNCHANGED disturbed
    /\ exporting' = [exporting EXCEPT ![x] = None]
    /\ UNCHANGED <<vars, inodes, tmp, dest, exports>>

\* A full disk, a locked database, a kill.
Breaks(x) ==
    /\ exporting[x] # None
    /\ exporting' = [exporting EXCEPT ![x] = None]
    /\ disturbed' = IF At(x, "record") THEN disturbed \cup {exporting[x].kind} ELSE disturbed
    /\ UNCHANGED <<vars, inodes, tmp, dest, recorded, exports>>

ExportStep(x) == Begin(x) \/ Open(x) \/ Write(x) \/ Replace(x) \/ Record(x) \/ Breaks(x)

ExportNext ==
    \/ Next /\ UNCHANGED fileVars
    \/ \E x \in Exporters : ExportStep(x)

ExportSpec == ExportInit /\ [][ExportNext]_allVars

-----------------------------------------------------------------------------

\* What stands at a destination is one whole export whose record the store has,
\* or will have at the next step of its exporter, whatever is annotated during the
\* export: except where two exports of the file overlapped, or one failed between
\* the rename and the record.
PublishedRecorded ==
    \A kind \in Kinds \ disturbed :
        dest[kind] # 0 =>
            LET entry == [kind |-> kind, content |-> inodes[dest[kind]]]
            IN  \/ entry \in recorded
                \/ \E x \in Exporters : At(x, "record") /\ exporting[x].kind = kind
                                        /\ exporting[x].rows = entry.content

=============================================================================
