------------------------------- MODULE Output -------------------------------
(***************************************************************************)
(* From files to files: what a run reads from disk, what it hands back,    *)
(* and what write() leaves in a directory (facade.py, formats/loader.py,   *)
(* core/preflight.py, core/pipeline.py, core/rendering.py,                 *)
(* core/projection.py, core/provenance.py, core/result.py).                *)
(*                                                                         *)
(* A source file is read four times, at four moments: parsed, stamped,     *)
(* checked at the start of every run, and rewritten once everything is     *)
(* decided.  Anybody may replace it in between.  What the run decides is   *)
(* PageDriver's and how a line is rewritten is Rewriter's; here a rewrite  *)
(* of well-formed bytes reads back in any of the ways the projection       *)
(* check tells apart.                                                      *)
(***************************************************************************)
EXTENDS Naturals, Sequences, FiniteSets, SequencesExt

CONSTANTS
    Order,      \* the source names, in the order given
    FileNames,  \* what Path(source_name).name flattens them to
    Xml,        \* the well-formed documents a path may hold
    MaxRuns,    \* bound on the runs of one loaded document
    MaxWrites,  \* bound on the calls of write()
    MaxReplaced \* bound on the replacements of source files

Files == Range(Order)
Contents == Xml \cup {"malformed", "gone"}

ASSUME OutputAssumption ==
    /\ Order \in Seq(Files) /\ IsInjective(Order) /\ Order # <<>>
    /\ {"malformed", "gone"} \cap Xml = {} /\ {"report.json", "sidecar.json"} \cap FileNames = {}
    /\ MaxRuns \in Nat /\ MaxWrites \in Nat /\ MaxReplaced \in Nat

(* How a rewritten file reads against the decisions, line by line: at some *)
(* level of fidelity, with other words, or with a line that is not there.  *)
Readings == {"faithful", "reworded", "missing"}

VARIABLES
    disk, replaced, \* the bytes at each source path, and how often one was replaced
    door,           \* how the document came in: "facade", "loader", "by_hand"
    filename,       \* the flattened name of each source
    paged,          \* the sources that have a page
    step, at,       \* where the program is; the file it is about to read or write
    parsed, stamp,  \* the bytes parsed; the bytes digested into source_digests
    moved,          \* history: sources replaced inside a window nobody watches
    run, supplied, changed, corrected, undeliverable, attested, sidecar,
    writes, partial,            \* the calls of write(), the last one's allow_partial
    files, report, sidecarFile  \* the target directory

sources == <<disk, replaced>>
document == <<door, filename, paged, parsed, stamp>>
outcome == <<supplied, changed, corrected, undeliverable, attested, sidecar>>
directory == <<files, report, sidecarFile>>
vars == <<sources, document, step, at, moved, run, outcome, writes, partial, directory>>

NoFile == [f \in {} |-> ""]
Nothing == [run |-> 0, of |-> "", reading |-> ""]
Torn == [Nothing EXCEPT !.reading = "torn"]
NoReport == [write |-> 0, run |-> 0, missing |-> {}]
EmptyDirectory == files = [n \in FileNames |-> Nothing] /\ report = NoReport /\ sidecarFile = 0

Put(g, f, value) == [h \in DOMAIN g \cup {f} |-> IF h = f THEN value ELSE g[h]]
Collide == \E f, g \in Files : f # g /\ filename[f] = filename[g]

Init ==
    /\ disk \in {[f \in Files |-> x] : x \in Xml} /\ replaced = 0
    /\ door \in {"facade", "loader", "by_hand"}
    /\ filename \in [Files -> FileNames] /\ paged \in SUBSET Files
    /\ step = (IF door = "by_hand" THEN "loaded" ELSE "parsing") /\ at = 1
    /\ parsed = NoFile /\ stamp = NoFile /\ moved = {}
    /\ run = 0 /\ supplied = {} /\ changed = {} /\ sidecar = FALSE
    /\ corrected = NoFile /\ undeliverable = {} /\ attested = NoFile
    /\ writes = 0 /\ partial = FALSE /\ EmptyDirectory

Here == Order[at]
AtLast == at = Len(Order)

(* On to the next file, or to the next stage after the last one.           *)
Advance(next) ==
    /\ step' = IF AtLast THEN next ELSE step
    /\ at' = IF AtLast THEN 1 ELSE at + 1
Stop(where) == step' = where /\ at' = 1

-----------------------------------------------------------------------------
(* Loading.  The parser opens every file, and digests every file only      *)
(* after it has parsed and linked them all.                                *)

Parse ==
    /\ step = "parsing"
    /\ IF disk[Here] \notin Xml \/ (door = "facade" /\ Collide)
       THEN Stop("unloaded") /\ UNCHANGED parsed
       ELSE parsed' = Put(parsed, Here, disk[Here]) /\ Advance("stamping")
    /\ UNCHANGED <<sources, door, filename, paged, stamp, moved, run, outcome, writes, partial,
                   directory>>

Stamp ==
    /\ step = "stamping"
    /\ IF disk[Here] = "gone"
       THEN Stop("unloaded") /\ UNCHANGED stamp
       ELSE stamp' = Put(stamp, Here, disk[Here]) /\ Advance("loaded")
    /\ UNCHANGED <<sources, door, filename, paged, parsed, moved, run, outcome, writes, partial,
                   directory>>

-----------------------------------------------------------------------------
(* A run: preflight, decisions, one rewrite per file, the result.          *)

Returned == {"returned", "written", "cut"}

(* Every source of the manifest, or none for a run that only decides.      *)
EverySource(given) == given \in {{}, Files}

StartRun(given) ==
    /\ step \in {"loaded", "refused"} \cup Returned /\ run < MaxRuns
    /\ run' = run + 1 /\ supplied' = given /\ changed' = {}
    /\ corrected' = NoFile /\ undeliverable' = {} /\ attested' = NoFile /\ sidecar' = FALSE
    /\ moved' = {f \in DOMAIN stamp : stamp[f] # parsed[f]}
    /\ Stop(IF ~EverySource(given) THEN "refused"
            ELSE IF given = {} \/ stamp = NoFile THEN "deciding" ELSE "checking")
    /\ UNCHANGED <<sources, document, writes, partial, directory>>

(* Faulty: the paths are opened and not compared.                          *)
SameBytes_AnyBytes(f) == disk[f] # "gone"

SameBytes(f) == disk[f] = stamp[f]

Check ==
    /\ step = "checking"
    /\ changed' = IF SameBytes(Here) THEN changed ELSE changed \cup {Here}
    /\ IF disk[Here] = "gone" \/ (AtLast /\ changed' # {})
       THEN Stop("refused")
       ELSE Advance("deciding")
    /\ UNCHANGED <<sources, document, moved, run, supplied, corrected, undeliverable, attested,
                   sidecar, writes, partial, directory>>

(* The pages, then finalize; or the rest of preflight, or should_abort.    *)
Decide ==
    /\ step = "deciding"
    /\ \E next \in {IF supplied = {} THEN "attesting" ELSE "rendering", "refused"} : Stop(next)
    /\ sidecar' \in BOOLEAN
    /\ UNCHANGED <<sources, document, moved, run, supplied, changed, corrected, undeliverable,
                   attested, writes, partial, directory>>

(* Faulty: a line that is there is taken for the line that was decided.    *)
Diverges_MissingOnly(reading) == reading = "missing"

Diverges(reading) == reading \in {"reworded", "missing"}

(* A file that cannot be read ends the run; one that reads otherwise than  *)
(* decided is withheld, and the run goes on.                               *)
Render ==
    /\ step = "rendering"
    /\ IF Here \notin paged
       THEN Advance("attesting") /\ UNCHANGED <<corrected, undeliverable>>
       ELSE IF disk[Here] \notin Xml
       THEN Stop("refused") /\ UNCHANGED <<corrected, undeliverable>>
       ELSE \E reading \in Readings :
              /\ Advance("attesting")
              /\ corrected' = IF Diverges(reading) THEN corrected
                              ELSE Put(corrected, Here, [of |-> disk[Here], reading |-> reading])
              /\ undeliverable' = IF Diverges(reading) THEN undeliverable \cup {Here}
                                  ELSE undeliverable
    /\ UNCHANGED <<sources, document, moved, run, supplied, changed, attested, sidecar, writes,
                   partial, directory>>

(* The digests of the result: the stamps, or a read of what is there now.  *)
DecidedOn == IF stamp = NoFile THEN disk ELSE stamp

Attest ==
    /\ step = "attesting"
    /\ IF \E f \in supplied : DecidedOn[f] = "gone"
       THEN Stop("refused") /\ UNCHANGED attested
       ELSE attested' = [f \in supplied |-> DecidedOn[f]] /\ Stop("returned")
    /\ UNCHANGED <<sources, document, moved, run, supplied, changed, corrected, undeliverable,
                   sidecar, writes, partial, directory>>

-----------------------------------------------------------------------------
(* write().  It refuses before it creates anything, and may be cut at any  *)
(* point after that: an OSError the caller may answer by calling again, or *)
(* the end of the process.                                                 *)

Delivered == DOMAIN corrected

(* Faulty: the incomplete set is refused, the colliding names are not.     *)
MayWrite_AnyNames(allow) == undeliverable = {} \/ allow

MayWrite(allow) ==
    /\ undeliverable = {} \/ allow
    /\ \A f, g \in Delivered : f # g => filename[f] # filename[g]

BeginWrite(allow) ==
    /\ step \in Returned /\ writes < MaxWrites /\ MayWrite(allow)
    /\ writes' = writes + 1 /\ partial' = allow /\ Stop("files")
    /\ UNCHANGED <<sources, document, moved, run, outcome, directory>>

WriteFile ==
    /\ step = "files"
    /\ files' = IF Here \notin Delivered THEN files
                ELSE [files EXCEPT ![filename[Here]] =
                         [run |-> run, of |-> Here, reading |-> corrected[Here].reading]]
    /\ Advance("report")
    /\ UNCHANGED <<sources, document, moved, run, outcome, writes, partial, report, sidecarFile>>

WriteReport ==
    /\ step = "report"
    /\ report' = [write |-> writes, run |-> run, missing |-> undeliverable]
    /\ Stop(IF sidecar THEN "sidecar" ELSE "written")
    /\ UNCHANGED <<sources, document, moved, run, outcome, writes, partial, files, sidecarFile>>

WriteSidecar ==
    /\ step = "sidecar"
    /\ sidecarFile' = run /\ Stop("written")
    /\ UNCHANGED <<sources, document, moved, run, outcome, writes, partial, files, report>>

(* Cut before or in the middle of what was about to be written.            *)
Cut ==
    /\ step \in {"files", "report", "sidecar"}
    /\ files' \in {files} \cup
                  {[files EXCEPT ![filename[f]] = Torn] :
                      f \in {Here} \cap (IF step = "files" THEN Delivered ELSE {})}
    /\ report' \in {report} \cup (IF step = "report" THEN {NoReport} ELSE {})
    /\ sidecarFile' \in {sidecarFile} \cup (IF step = "sidecar" THEN {0} ELSE {})
    /\ Stop("cut")
    /\ UNCHANGED <<sources, document, moved, run, outcome, writes, partial>>

-----------------------------------------------------------------------------
(* Somebody replaces, deletes or restores a source.  It matters while the  *)
(* program will read it again; nobody watches a file between the parse and *)
(* the stamp, nor between the check of a run and its last read.            *)

Unread(f) == \E k \in at .. Len(Order) : Order[k] = f

Unwatched(f) ==
    \/ f \in DOMAIN parsed /\ f \notin DOMAIN stamp
    \/ /\ stamp # NoFile
       /\ \/ step = "checking" /\ ~Unread(f)
          \/ step = "deciding"
          \/ step = "rendering" /\ Unread(f)
    \/ /\ stamp = NoFile
       /\ step = "attesting" \/ (step = "rendering" /\ ~Unread(f))

Replace(f, content) ==
    /\ step \notin {"unloaded", "refused", "files", "report", "sidecar"} \cup Returned
    /\ content # disk[f] /\ replaced < MaxReplaced /\ replaced' = replaced + 1
    /\ disk' = [disk EXCEPT ![f] = content]
    /\ moved' = IF Unwatched(f) THEN moved \cup {f} ELSE moved
    /\ UNCHANGED <<document, step, at, run, outcome, writes, partial, directory>>

Next ==
    \/ Parse \/ Stamp
    \/ \E given \in SUBSET Files : StartRun(given)
    \/ Check \/ Decide \/ Render \/ Attest
    \/ \E allow \in BOOLEAN : BeginWrite(allow)
    \/ WriteFile \/ WriteReport \/ WriteSidecar \/ Cut
    \/ \E f \in Files, content \in Contents : Replace(f, content)

Spec == Init /\ [][Next]_vars

-----------------------------------------------------------------------------
(* A source of the run is delivered or named as undeliverable, never both  *)
(* and never neither, and no bytes that say something else than what was   *)
(* decided leave the program: not on the result, and not in the directory  *)
(* whatever calls were cut and repeated (_render_outputs,                  *)
(* _verify_projection, write).                                             *)
OnlyFaithfulLeaves ==
    /\ Delivered \cap undeliverable = {}
    /\ step \in Returned => Delivered \cup undeliverable = supplied \cap paged
    /\ \A f \in Delivered : corrected[f].reading = "faithful"
    /\ \A n \in FileNames : files[n].reading \notin {"reworded", "missing"}

(* The report a call of write() left accounts for every source of its run: *)
(* its file is in the directory, whole and of that run, or the report      *)
(* names it and the caller had accepted the subset.  A call that was cut   *)
(* leaves no report that claims otherwise, and a call after it repairs     *)
(* what it tore (CorrectionResult.write, _refuse_partial_write,            *)
(* _refuse_colliding_names).                                               *)
ReportAccountsForAll ==
    (report.write = writes /\ writes > 0 /\ report.run = run) =>
        /\ report.missing # {} => partial
        /\ \A f \in supplied \cap paged :
              \/ f \in report.missing
              \/ [files[filename[f]] EXCEPT !.reading = ""] =
                     [run |-> report.run, of |-> f, reading |-> ""]
        /\ sidecarFile <= report.run

(* A delivered file is a rewrite of the very bytes that were parsed, and   *)
(* the digest published beside it is theirs, unless the source was         *)
(* replaced where nothing looks (_require_the_same_bytes,                  *)
(* digests_of_the_bytes_decided_on).                                       *)
DeliveredAsParsed ==
    step \in Returned =>
        \A f \in Delivered \ moved :
            /\ corrected[f].of = attested[f]
            /\ f \in DOMAIN parsed => corrected[f].of = parsed[f]
=============================================================================
