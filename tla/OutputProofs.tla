---------------------------- MODULE OutputProofs ----------------------------
(* What leaves a run, for every set of sources, every number of runs, of   *)
(* writes and of replacements, and wherever a write is cut.                *)
EXTENDS Output, TLAPS

InRun == {"checking", "deciding", "rendering", "attesting"}
Writing == {"files", "report", "sidecar"}
Settled == {"attesting"} \cup Returned \cup Writing

(* The sources the stage's loop has dealt with, and the ones it has not.   *)
Behind == {Order[k] : k \in 1 .. (at - 1)}
Beyond == {Order[k] : k \in at .. Len(Order)}

Entry == [run : Nat, of : Files \cup {""}, reading : {"", "torn", "faithful"}]

OutputTypeOK ==
    /\ at \in 1 .. Len(Order)
    /\ disk \in [Files -> Contents]
    /\ filename \in [Files -> FileNames] /\ paged \subseteq Files
    /\ run \in Nat /\ writes \in Nat /\ partial \in BOOLEAN
    /\ Delivered \subseteq Files /\ undeliverable \subseteq Files
    /\ files \in [FileNames -> Entry]
    /\ report \in [write : Nat, run : Nat, missing : SUBSET Files]
    /\ sidecarFile \in Nat

(* What became of the sources of the run so far: a run is given all of     *)
(* them or none, and each file the rewriter has passed is on one side.     *)
DeliveryInv ==
    /\ step \in InRun \cup Returned \cup Writing => EverySource(supplied)
    /\ step \in {"checking", "rendering"} => supplied = Files
    /\ step \in {"checking", "deciding"} => Delivered = {} /\ undeliverable = {}
    /\ step = "rendering" => Delivered \cup undeliverable = Behind \cap paged
    /\ step \in Settled => Delivered \cup undeliverable = supplied \cap paged
    /\ Delivered \cap undeliverable = {}
    /\ \A f \in Delivered : corrected[f].reading = "faithful"

(* The entry of a source in the directory is the one of this run. *)
Written(f) == files[filename[f]].run = run /\ files[filename[f]].of = f

(* A call under way had the right to write, and has no report yet, or has  *)
(* written everything.                                                     *)
WritingInv ==
    /\ report.write =< writes /\ report.run =< run /\ sidecarFile =< run
    /\ step \in Writing => MayWrite(partial)
    /\ step \in {"files", "report"} => report.write < writes
    /\ step = "files" => \A f \in Behind \cap Delivered : Written(f)
    /\ step = "report" => \A f \in Delivered : Written(f)
    /\ (report.write = writes /\ writes > 0 /\ report.run = run) =>
          /\ report.missing # {} => partial
          /\ \A f \in supplied \cap paged : f \in report.missing \/ Written(f)

(* A file nobody replaced unseen still holds the bytes that were stamped,  *)
(* which are the bytes that were parsed, until it has been rewritten.      *)
Stamped == stamp # NoFile

ProvenanceInv ==
    /\ step = "parsing" => DOMAIN parsed = Behind /\ stamp = NoFile
    /\ step = "stamping" => DOMAIN parsed = Files /\ DOMAIN stamp = Behind
    /\ step \in {"loaded", "refused"} \cup InRun \cup Returned \cup Writing =>
          \/ parsed = NoFile /\ stamp = NoFile
          \/ DOMAIN parsed = Files /\ DOMAIN stamp = Files
    /\ step \in InRun \cup Returned \cup Writing =>
          \A f \in DOMAIN stamp \ moved : stamp[f] = parsed[f]
    /\ step = "checking" =>
          /\ Stamped
          /\ \A f \in Behind \ (moved \cup changed) : disk[f] = stamp[f]
    /\ step = "deciding" /\ supplied = Files /\ Stamped =>
          \A f \in Files \ moved : disk[f] = stamp[f]
    /\ step = "rendering" /\ Stamped => \A f \in Beyond \ moved : disk[f] = stamp[f]
    /\ step \in {"rendering"} \cup Settled /\ Stamped =>
          \A f \in Delivered \ moved : corrected[f].of = stamp[f]
    /\ step \in {"rendering", "attesting"} /\ ~Stamped =>
          \A f \in Delivered \ moved : corrected[f].of = disk[f]
    /\ step \in Returned \cup Writing =>
          \A f \in Delivered \ moved : corrected[f].of = attested[f]

OutputInv == OutputTypeOK /\ DeliveryInv /\ WritingInv /\ ProvenanceInv

-----------------------------------------------------------------------------
(* The loops over the sources. *)

LEMMA OrderFacts ==
    /\ Len(Order) \in Nat /\ Len(Order) >= 1
    /\ DOMAIN Order = 1 .. Len(Order)
    /\ Files = {Order[k] : k \in 1 .. Len(Order)}
    /\ \A j, k \in 1 .. Len(Order) : Order[j] = Order[k] => j = k
<1>1. Order \in Seq(Files) /\ Order # <<>>
  BY OutputAssumption
<1>2. Len(Order) \in Nat /\ DOMAIN Order = 1 .. Len(Order) /\ Len(Order) >= 1
  BY <1>1
<1>3. Files = {Order[k] : k \in 1 .. Len(Order)}
  BY <1>2 DEF Files, Range
<1>4. \A j, k \in 1 .. Len(Order) : Order[j] = Order[k] => j = k
  BY <1>2, OutputAssumption DEF IsInjective
<1> QED
  BY <1>2, <1>3, <1>4

(* The file at hand is beyond; every source is behind or beyond, not both. *)
LEMMA Position ==
    ASSUME at \in 1 .. Len(Order)
    PROVE  /\ Here \in Files /\ Here \in Beyond /\ Here \notin Behind
           /\ Behind \cup Beyond = Files /\ Behind \cap Beyond = {}
           /\ \A f \in Files : Unread(f) <=> f \in Beyond
  BY OrderFacts DEF Here, Behind, Beyond, Unread

(* One step of a loop moves the file at hand behind; the last one leaves   *)
(* every source behind and starts the next stage's loop afresh.            *)
LEMMA AdvanceEffect ==
    ASSUME at \in 1 .. Len(Order), NEW next, Advance(next)
    PROVE  /\ at' \in 1 .. Len(Order)
           /\ \/ /\ step' = step /\ Behind' = Behind \cup {Here} /\ Beyond' = Beyond \ {Here}
              \/ /\ step' = next /\ Behind \cup {Here} = Files /\ AtLast
                 /\ Behind' = {} /\ Beyond' = Files
<1>1. CASE AtLast
  <2>1. at = Len(Order) /\ at' = 1 /\ step' = next
    BY <1>1 DEF AtLast, Advance
  <2>2. Behind \cup {Here} = Files
    BY <2>1, OrderFacts DEF Behind, Here
  <2>3. Behind' = {} /\ Beyond' = Files
    BY <2>1, OrderFacts DEF Behind, Beyond
  <2> QED
    BY <1>1, <2>1, <2>2, <2>3, OrderFacts
<1>2. CASE ~AtLast
  <2>0. at' = at + 1 /\ step' = step
    BY <1>2 DEF Advance
  <2>1. at < Len(Order) /\ at' = at + 1 /\ step' = step
    BY <1>2, <2>0, OrderFacts DEF AtLast
  <2>2. Behind' = Behind \cup {Here}
    BY <2>1, OrderFacts DEF Behind, Here
  <2>3. Beyond' = Beyond \ {Here}
    BY <2>1, OrderFacts DEF Beyond, Here
  <2> QED
    BY <2>1, <2>2, <2>3, OrderFacts
<1> QED
  BY <1>1, <1>2

LEMMA StopEffect ==
    ASSUME NEW where, Stop(where)
    PROVE  /\ step' = where /\ at' \in 1 .. Len(Order)
           /\ Behind' = {} /\ Beyond' = Files
  BY OrderFacts DEF Stop, Behind, Beyond

-----------------------------------------------------------------------------
LEMMA OutputTypeNext == OutputTypeOK /\ DeliveryInv /\ [Next]_vars => OutputTypeOK'
<1> SUFFICES ASSUME OutputTypeOK, DeliveryInv, [Next]_vars
             PROVE  OutputTypeOK'
  OBVIOUS
<1> USE DEF OutputTypeOK
<1>1. Here \in Files
  BY Position
<1>2. CASE Parse
  <2>1. at' \in 1 .. Len(Order)
    BY <1>2, AdvanceEffect, StopEffect DEF Parse
  <2> QED
    BY <1>2, <2>1 DEF Parse, sources, outcome, directory, Delivered
<1>3. CASE Stamp
  <2>1. at' \in 1 .. Len(Order)
    BY <1>3, AdvanceEffect, StopEffect DEF Stamp
  <2> QED
    BY <1>3, <2>1 DEF Stamp, sources, outcome, directory, Delivered
<1>4. ASSUME NEW given \in SUBSET Files, StartRun(given)
      PROVE  OutputTypeOK'
  <2>1. at' \in 1 .. Len(Order)
    BY <1>4, StopEffect DEF StartRun
  <2> QED
    BY <1>4, <2>1 DEF StartRun, sources, document, directory, Delivered, NoFile
<1>5. CASE Check
  <2>1. at' \in 1 .. Len(Order)
    BY <1>5, AdvanceEffect, StopEffect DEF Check
  <2> QED
    BY <1>5, <2>1 DEF Check, sources, document, directory, Delivered
<1>6. CASE Decide
  <2>1. at' \in 1 .. Len(Order)
    BY <1>6, StopEffect DEF Decide
  <2> QED
    BY <1>6, <2>1 DEF Decide, sources, document, directory, Delivered
<1>7. CASE Render
  <2>1. at' \in 1 .. Len(Order)
    BY <1>7, AdvanceEffect, StopEffect DEF Render
  <2>2. Delivered' \subseteq Files /\ undeliverable' \subseteq Files
    BY <1>1, <1>7 DEF Render, Delivered, Put
  <2> QED
    BY <1>7, <2>1, <2>2 DEF Render, sources, document, directory
<1>8. CASE Attest
  <2>1. at' \in 1 .. Len(Order)
    BY <1>8, StopEffect DEF Attest
  <2> QED
    BY <1>8, <2>1 DEF Attest, sources, document, directory, Delivered
<1>9. ASSUME NEW allow \in BOOLEAN, BeginWrite(allow)
      PROVE  OutputTypeOK'
  <2>1. at' \in 1 .. Len(Order)
    BY <1>9, StopEffect DEF BeginWrite
  <2> QED
    BY <1>9, <2>1 DEF BeginWrite, sources, document, outcome, directory, Delivered
<1>10. CASE WriteFile
  <2>1. at' \in 1 .. Len(Order)
    BY <1>10, AdvanceEffect DEF WriteFile
  <2>2. files' \in [FileNames -> Entry]
    <3>1. CASE Here \notin Delivered
      BY <1>10, <3>1 DEF WriteFile
    <3>2. CASE Here \in Delivered
      <4> DEFINE e == [run |-> run, of |-> Here, reading |-> corrected[Here].reading]
      <4>1. e \in Entry
        BY <1>1, <3>2 DEF Entry, DeliveryInv
      <4>2. files' = [files EXCEPT ![filename[Here]] = e]
        BY <1>10, <3>2 DEF WriteFile
      <4> HIDE DEF e
      <4> QED
        BY <4>1, <4>2
    <3> QED
      BY <3>1, <3>2
  <2> QED
    BY <1>10, <2>1, <2>2 DEF WriteFile, sources, document, outcome, Delivered
<1>11. CASE WriteReport
  <2>1. at' \in 1 .. Len(Order)
    BY <1>11, StopEffect DEF WriteReport
  <2> QED
    BY <1>11, <2>1 DEF WriteReport, sources, document, outcome, Delivered
<1>12. CASE WriteSidecar
  <2>1. at' \in 1 .. Len(Order)
    BY <1>12, StopEffect DEF WriteSidecar
  <2> QED
    BY <1>12, <2>1 DEF WriteSidecar, sources, document, outcome, Delivered
<1>13. CASE Cut
  <2>1. at' \in 1 .. Len(Order)
    BY <1>13, StopEffect DEF Cut
  <2>2. Torn \in Entry
    BY DEF Torn, Nothing, Entry
  <2>3. files' \in [FileNames -> Entry]
    BY <1>13, <2>2 DEF Cut
  <2>4. report' \in [write : Nat, run : Nat, missing : SUBSET Files] /\ sidecarFile' \in Nat
    BY <1>13 DEF Cut, NoReport
  <2> QED
    BY <1>13, <2>1, <2>3, <2>4 DEF Cut, sources, document, outcome, Delivered
<1>14. ASSUME NEW f \in Files, NEW content \in Contents, Replace(f, content)
      PROVE  OutputTypeOK'
  BY <1>14 DEF Replace, document, outcome, directory, Delivered
<1>15. CASE UNCHANGED vars
  BY <1>15 DEF vars, sources, document, outcome, directory, Delivered
<1> QED
  BY <1>2, <1>3, <1>4, <1>5, <1>6, <1>7, <1>8, <1>9, <1>10, <1>11, <1>12, <1>13, <1>14, <1>15
  DEF Next

(* Nothing about the deliveries moves while a stage outside a run does.    *)
LEMMA DeliveryStill ==
    ASSUME DeliveryInv, UNCHANGED <<outcome, paged>>,
           step' \in Returned \cup Writing => step \in Settled,
           step' \notin {"checking", "deciding", "rendering", "attesting"}
    PROVE  DeliveryInv'
  BY DEF DeliveryInv, InRun, Settled, Returned, Writing, outcome, Delivered, EverySource

LEMMA DeliveryNext == OutputTypeOK /\ DeliveryInv /\ [Next]_vars => DeliveryInv'
<1> SUFFICES ASSUME OutputTypeOK, DeliveryInv, [Next]_vars
             PROVE  DeliveryInv'
  OBVIOUS
<1> USE DEF EverySource
<1>0. at \in 1 .. Len(Order) /\ Here \in Files
  BY Position DEF OutputTypeOK
<1>1. CASE Parse \/ Stamp
  <2>1. step' \in {"parsing", "stamping", "loaded", "unloaded"}
    BY <1>1 DEF Parse, Stamp, Stop, Advance
  <2> QED
    BY <1>1, <2>1, DeliveryStill DEF Parse, Stamp, document, Returned, Writing
<1>2. ASSUME NEW given \in SUBSET Files, StartRun(given)
      PROVE  DeliveryInv'
  <2>1. Delivered' = {} /\ undeliverable' = {} /\ supplied' = given
    BY <1>2 DEF StartRun, Delivered, NoFile
  <2>2. /\ step' \in {"refused", "deciding", "checking"}
        /\ step' # "refused" => given \in {{}, Files}
        /\ step' = "checking" => given = Files
    BY <1>2 DEF StartRun, Stop
  <2> QED
    BY <2>1, <2>2 DEF DeliveryInv, InRun, Settled, Returned, Writing
<1>3. CASE Check
  <2>1. step = "checking" /\ step' \in {"checking", "refused", "deciding"}
    BY <1>3 DEF Check, Stop, Advance
  <2>2. UNCHANGED <<supplied, corrected, undeliverable, paged>>
    BY <1>3 DEF Check, document
  <2> QED
    BY <2>1, <2>2 DEF DeliveryInv, InRun, Settled, Returned, Writing, Delivered
<1>4. CASE Decide
  <2>1. /\ step = "deciding" /\ step' \in {"attesting", "rendering", "refused"}
        /\ step' = "attesting" => supplied = {}
        /\ step' = "rendering" => supplied # {}
        /\ Behind' = {}
    BY <1>4, StopEffect DEF Decide
  <2>2. UNCHANGED <<supplied, corrected, undeliverable, paged>>
    BY <1>4 DEF Decide, document
  <2> QED
    BY <2>1, <2>2 DEF DeliveryInv, InRun, Settled, Returned, Writing, Delivered
<1>5. CASE Render
  <2>1. step = "rendering" /\ supplied = Files /\ UNCHANGED <<supplied, paged>>
    BY <1>5 DEF Render, DeliveryInv, document
  <2>2. Delivered \cup undeliverable = Behind \cap paged /\ Here \notin Behind
    BY <1>0, <2>1, Position DEF DeliveryInv
  <2>3. CASE step' = "refused" /\ UNCHANGED <<corrected, undeliverable>>
    BY <2>1, <2>3 DEF DeliveryInv, InRun, Settled, Returned, Writing, Delivered
  <2>4. ASSUME Advance("attesting"),
               Delivered' \cup undeliverable' = (Behind \cup {Here}) \cap paged,
               Delivered' \cap undeliverable' = {},
               \A f \in Delivered' : corrected'[f].reading = "faithful"
        PROVE  DeliveryInv'
    <3>1. \/ step' = "rendering" /\ Behind' = Behind \cup {Here}
          \/ step' = "attesting" /\ Behind \cup {Here} = Files
      BY <1>0, <2>1, <2>4, AdvanceEffect
    <3> QED
      BY <2>1, <2>4, <3>1
      DEF DeliveryInv, InRun, Settled, Returned, Writing, OutputTypeOK
  <2>5. CASE Here \notin paged
    BY <1>5, <2>2, <2>4, <2>5 DEF Render, Delivered, DeliveryInv
  <2>6. ASSUME NEW reading \in Readings, Here \in paged, Advance("attesting"),
               corrected' = IF Diverges(reading) THEN corrected
                            ELSE Put(corrected, Here, [of |-> disk[Here], reading |-> reading]),
               undeliverable' = IF Diverges(reading) THEN undeliverable \cup {Here}
                                ELSE undeliverable
        PROVE  DeliveryInv'
    <3>1. CASE Diverges(reading)
      BY <2>2, <2>4, <2>6, <3>1 DEF Delivered, DeliveryInv
    <3>2. CASE ~Diverges(reading)
      <4>1. reading = "faithful"
        BY <3>2 DEF Diverges, Readings
      <4>2. Delivered' = Delivered \cup {Here}
        BY <2>6, <3>2 DEF Put, Delivered
      <4>3. \A f \in Delivered' : corrected'[f].reading = "faithful"
        BY <2>6, <3>2, <4>1, <4>2 DEF Put, Delivered, DeliveryInv
      <4> QED
        BY <2>2, <2>4, <2>6, <3>2, <4>2, <4>3 DEF DeliveryInv
    <3> QED
      BY <3>1, <3>2
  <2>7. Stop("refused") => step' = "refused"
    BY DEF Stop
  <2> QED
    BY <1>5, <2>3, <2>5, <2>6, <2>7 DEF Render
<1>6. CASE Attest
  <2>1. step = "attesting" /\ step' \in {"refused", "returned"}
    BY <1>6 DEF Attest, Stop
  <2>2. UNCHANGED <<supplied, corrected, undeliverable, paged>>
    BY <1>6 DEF Attest, document
  <2> QED
    BY <2>1, <2>2 DEF DeliveryInv, InRun, Settled, Returned, Writing, Delivered
<1>7. ASSUME NEW allow \in BOOLEAN, BeginWrite(allow)
      PROVE  DeliveryInv'
  <2>1. step \in Returned /\ step' = "files" /\ UNCHANGED <<outcome, paged>>
    BY <1>7 DEF BeginWrite, Stop, document
  <2> QED
    BY <2>1, DeliveryStill DEF Settled
<1>8. CASE WriteFile \/ WriteReport \/ WriteSidecar \/ Cut
  <2>1. step \in Writing /\ step' \in {"files", "report", "sidecar", "written", "cut"}
    BY <1>8 DEF WriteFile, WriteReport, WriteSidecar, Cut, Stop, Advance, Writing
  <2>2. UNCHANGED <<outcome, paged>>
    BY <1>8 DEF WriteFile, WriteReport, WriteSidecar, Cut, document
  <2> QED
    BY <2>1, <2>2, DeliveryStill DEF Settled
<1>9. ASSUME NEW f \in Files, NEW content \in Contents, Replace(f, content)
      PROVE  DeliveryInv'
  <2>1. UNCHANGED <<outcome, paged, step, at>>
    BY <1>9 DEF Replace, document
  <2> QED
    BY <2>1 DEF DeliveryInv, outcome, Delivered, Behind
<1>10. CASE UNCHANGED vars
  BY <1>10 DEF vars, DeliveryInv, outcome, document, Delivered, Behind
<1> QED
  BY <1>1, <1>2, <1>3, <1>4, <1>5, <1>6, <1>7, <1>8, <1>9, <1>10 DEF Next

-----------------------------------------------------------------------------
(* What the last report says is about the directory and the outcome only.  *)
LEMMA WritingStill ==
    ASSUME WritingInv, UNCHANGED <<outcome, directory, run, writes, partial, filename, paged>>,
           step' \notin Writing
    PROVE  WritingInv'
  BY DEF WritingInv, Written, Writing, outcome, directory, Delivered

LEMMA WritingNext == OutputTypeOK /\ DeliveryInv /\ WritingInv /\ [Next]_vars => WritingInv'
<1> SUFFICES ASSUME OutputTypeOK, DeliveryInv, WritingInv, [Next]_vars
             PROVE  WritingInv'
  OBVIOUS
<1>0. at \in 1 .. Len(Order) /\ Here \in Files
  BY Position DEF OutputTypeOK
<1>1. CASE Parse \/ Stamp
  BY <1>1, WritingStill
  DEF Parse, Stamp, Stop, Advance, Writing, document
<1>2. ASSUME NEW given \in SUBSET Files, StartRun(given)
      PROVE  WritingInv'
  <2>1. /\ run' = run + 1 /\ UNCHANGED <<directory, writes>>
        /\ step' \notin Writing
    BY <1>2 DEF StartRun, Stop, Writing
  <2>2. report'.run # run' /\ report'.run =< run' /\ sidecarFile' =< run'
    BY <2>1 DEF WritingInv, OutputTypeOK, directory
  <2> QED
    BY <2>1, <2>2 DEF WritingInv, Writing, directory
<1>3. CASE Check \/ Decide \/ Attest
  <2>1. step' \notin Writing /\ UNCHANGED <<directory, run, writes, partial, filename, paged>>
    BY <1>3 DEF Check, Decide, Attest, Stop, Advance, Writing, document
  <2>2. UNCHANGED <<supplied, corrected, undeliverable>>
    BY <1>3 DEF Check, Decide, Attest
  <2> QED
    BY <2>1, <2>2 DEF WritingInv, Written, Writing, directory, Delivered
<1>4. CASE Render
  <2>1. /\ step' \notin Writing /\ step = "rendering"
        /\ UNCHANGED <<supplied, directory, run, writes, partial, filename, paged>>
    BY <1>4 DEF Render, Stop, Advance, Writing, document
  <2> QED
    BY <2>1 DEF WritingInv, Written, Writing, directory
<1>5. ASSUME NEW allow \in BOOLEAN, BeginWrite(allow)
      PROVE  WritingInv'
  <2>1. /\ step' = "files" /\ writes' = writes + 1 /\ partial' = allow /\ MayWrite(allow)
        /\ Behind' = {}
        /\ UNCHANGED <<outcome, directory, run, filename, paged>>
    BY <1>5, StopEffect DEF BeginWrite, document
  <2>2. report'.write < writes'
    BY <2>1 DEF WritingInv, OutputTypeOK, directory
  <2>3. MayWrite(partial)'
    BY <2>1 DEF MayWrite, outcome, Delivered
  <2> QED
    BY <2>1, <2>2, <2>3 DEF WritingInv, OutputTypeOK, Writing, outcome, directory
<1>6. CASE WriteFile
  <2>1. /\ step = "files" /\ Advance("report")
        /\ UNCHANGED <<outcome, run, writes, partial, filename, paged, report, sidecarFile>>
    BY <1>6 DEF WriteFile, document
  <2>2. \/ step' = "files" /\ Behind' = Behind \cup {Here}
        \/ step' = "report" /\ Behind \cup {Here} = Files
    BY <1>0, <2>1, AdvanceEffect
  <2>3. ASSUME NEW f \in (Behind \cup {Here}) \cap Delivered
        PROVE  Written(f)'
    <3>1. CASE f = Here
      BY <1>6, <2>1, <2>3, <3>1 DEF WriteFile, Written, OutputTypeOK
    <3>2. CASE f # Here
      <4>1. Written(f)
        BY <2>1, <2>3, <3>2 DEF WritingInv
      <4>2. Here \in Delivered => filename[f] # filename[Here]
        BY <2>1, <2>3, <3>2 DEF WritingInv, Writing, MayWrite
      <4>3. files'[filename[f]] = files[filename[f]]
        BY <1>6, <2>3, <4>2 DEF WriteFile, OutputTypeOK
      <4> QED
        BY <2>1, <4>1, <4>3 DEF Written
    <3> QED
      BY <3>1, <3>2
  <2>4. MayWrite(partial)'
    BY <2>1 DEF WritingInv, Writing, MayWrite, outcome, Delivered
  <2>5. Delivered' = Delivered /\ Delivered \subseteq Files
    BY <2>1 DEF outcome, Delivered, OutputTypeOK
  <2>6. /\ report'.write < writes' /\ report'.write =< writes' /\ report'.write # writes'
        /\ report'.run =< run' /\ sidecarFile' =< run'
    BY <2>1 DEF WritingInv, OutputTypeOK
  <2> QED
    BY <2>2, <2>3, <2>4, <2>5, <2>6 DEF WritingInv
<1>7. CASE WriteReport
  <2>1. /\ step = "report" /\ step' \in {"sidecar", "written"}
        /\ report' = [write |-> writes, run |-> run, missing |-> undeliverable]
        /\ UNCHANGED <<outcome, run, writes, partial, filename, paged, files, sidecarFile>>
    BY <1>7 DEF WriteReport, Stop, document
  <2>2. \A f \in Delivered : Written(f)'
    BY <2>1 DEF WritingInv, Written
  <2>3. Delivered \cup undeliverable = supplied \cap paged
    BY <2>1 DEF DeliveryInv, Settled, Writing
  <2>4. MayWrite(partial)'
    BY <2>1 DEF WritingInv, Writing, MayWrite, outcome, Delivered
  <2>5. report'.missing # {} => partial'
    BY <2>1 DEF WritingInv, Writing, MayWrite
  <2>6. \A f \in supplied' \cap paged' : f \in report'.missing \/ Written(f)'
    BY <2>1, <2>2, <2>3 DEF outcome
  <2> QED
    BY <2>1, <2>4, <2>5, <2>6 DEF WritingInv, OutputTypeOK
<1>8. CASE WriteSidecar
  <2>1. /\ step' = "written" /\ sidecarFile' = run
        /\ UNCHANGED <<outcome, run, writes, partial, filename, paged, files, report>>
    BY <1>8 DEF WriteSidecar, Stop, document
  <2> QED
    BY <2>1 DEF WritingInv, Written, Writing, OutputTypeOK, outcome
<1>9. CASE Cut
  <2>1. /\ step \in Writing /\ step' = "cut"
        /\ UNCHANGED <<outcome, run, writes, partial, filename, paged>>
    BY <1>9 DEF Cut, Stop, Writing, document
  <2>2. report' \in {report, NoReport} /\ sidecarFile' \in {sidecarFile, 0}
    BY <1>9 DEF Cut
  <2>3. report'.write =< writes' /\ report'.run =< run' /\ sidecarFile' =< run'
    BY <2>1, <2>2 DEF WritingInv, OutputTypeOK, NoReport
  <2>4. CASE step \in {"files", "report"}
    <3>1. report'.write = writes' => writes' = 0
      BY <2>1, <2>2, <2>4 DEF WritingInv, OutputTypeOK, NoReport
    <3> QED
      BY <2>1, <2>3, <3>1 DEF WritingInv, Writing, OutputTypeOK
  <2>5. CASE step = "sidecar"
    <3>1. UNCHANGED <<files, report>>
      BY <1>9, <2>5 DEF Cut
    <3> QED
      BY <2>1, <2>3, <3>1 DEF WritingInv, Written, Writing, outcome
  <2> QED
    BY <2>1, <2>4, <2>5 DEF Writing
<1>10. ASSUME NEW f \in Files, NEW content \in Contents, Replace(f, content)
      PROVE  WritingInv'
  <2>1. /\ UNCHANGED <<outcome, directory, run, writes, partial, filename, paged>>
        /\ step' \notin Writing
    BY <1>10 DEF Replace, document, Writing
  <2> QED
    BY <2>1, WritingStill
<1>11. CASE UNCHANGED vars
  BY <1>11 DEF vars, WritingInv, Written, MayWrite, outcome, document, directory, Delivered, Behind
<1> QED
  BY <1>1, <1>2, <1>3, <1>4, <1>5, <1>6, <1>7, <1>8, <1>9, <1>10, <1>11 DEF Next

-----------------------------------------------------------------------------
(* Once a document is loaded, the bytes of the run concern its variables   *)
(* only; a step that leaves them alone keeps what is known of them.        *)
LEMMA ProvenanceStill ==
    ASSUME ProvenanceInv, UNCHANGED <<parsed, stamp, moved, corrected, attested>>,
           step \in Returned \cup Writing, step' \in Returned \cup Writing
    PROVE  ProvenanceInv'
  BY DEF ProvenanceInv, InRun, Settled, Returned, Writing, Delivered, Stamped

LEMMA ProvenanceNext ==
    OutputTypeOK /\ DeliveryInv /\ ProvenanceInv /\ [Next]_vars => ProvenanceInv'
<1> SUFFICES ASSUME OutputTypeOK, DeliveryInv, ProvenanceInv, [Next]_vars
             PROVE  ProvenanceInv'
  OBVIOUS
<1>0. at \in 1 .. Len(Order) /\ Here \in Files
  BY Position DEF OutputTypeOK
<1> DEFINE Loaded == \/ parsed = NoFile /\ stamp = NoFile
                     \/ DOMAIN parsed = Files /\ DOMAIN stamp = Files
<1>1. CASE Parse
  <2>1. step = "parsing" /\ DOMAIN parsed = Behind
    BY <1>1 DEF Parse, ProvenanceInv
  <2>2. CASE Stop("unloaded")
    BY <2>2 DEF Stop, ProvenanceInv, InRun, Settled, Returned, Writing
  <2>3. CASE parsed' = Put(parsed, Here, disk[Here]) /\ Advance("stamping")
    <3>1. DOMAIN parsed' = Behind \cup {Here} /\ stamp' = stamp
      BY <1>1, <2>1, <2>3 DEF Put, Parse
    <3>2. \/ step' = "parsing" /\ Behind' = Behind \cup {Here}
          \/ step' = "stamping" /\ Behind \cup {Here} = Files /\ Behind' = {}
      BY <1>0, <2>1, <2>3, AdvanceEffect
    <3>3. stamp = NoFile
      BY <2>1 DEF ProvenanceInv
    <3> QED
      BY <3>1, <3>2, <3>3 DEF ProvenanceInv, InRun, Settled, Returned, Writing, NoFile
  <2> QED
    BY <1>1, <2>2, <2>3 DEF Parse
<1>2. CASE Stamp
  <2>1. step = "stamping" /\ DOMAIN parsed = Files /\ DOMAIN stamp = Behind
    BY <1>2 DEF Stamp, ProvenanceInv
  <2>2. CASE Stop("unloaded")
    BY <2>2 DEF Stop, ProvenanceInv, InRun, Settled, Returned, Writing
  <2>3. CASE stamp' = Put(stamp, Here, disk[Here]) /\ Advance("loaded")
    <3>1. DOMAIN stamp' = Behind \cup {Here} /\ parsed' = parsed
      BY <1>2, <2>1, <2>3 DEF Put, Stamp
    <3>2. \/ step' = "stamping" /\ Behind' = Behind \cup {Here}
          \/ step' = "loaded" /\ Behind \cup {Here} = Files
      BY <1>0, <2>1, <2>3, AdvanceEffect
    <3> QED
      BY <2>1, <3>1, <3>2 DEF ProvenanceInv, InRun, Settled, Returned, Writing
  <2> QED
    BY <1>2, <2>2, <2>3 DEF Stamp
<1>3. ASSUME NEW given \in SUBSET Files, StartRun(given)
      PROVE  ProvenanceInv'
  <2>1. /\ UNCHANGED <<parsed, stamp>> /\ Delivered' = {} /\ supplied' = given
        /\ moved' = {f \in DOMAIN stamp : stamp[f] # parsed[f]}
        /\ Behind' = {}
    BY <1>3, StopEffect DEF StartRun, document, Delivered, NoFile
  <2>2. /\ step' \in {"refused", "deciding", "checking"}
        /\ step' = "checking" => stamp # NoFile
        /\ step' = "deciding" => given = {} \/ stamp = NoFile
    BY <1>3 DEF StartRun, Stop
  <2>3. Loaded
    BY <1>3 DEF StartRun, ProvenanceInv
  <2>4. \A f \in DOMAIN stamp' \ moved' : stamp'[f] = parsed'[f]
    BY <2>1
  <2>5. Files # {}
    BY <1>0
  <2> QED
    BY <2>1, <2>2, <2>3, <2>4, <2>5 DEF ProvenanceInv, InRun, Settled, Returned, Writing, Stamped
<1>4. CASE Check
  <2>1. /\ step = "checking" /\ Stamped /\ supplied = Files
        /\ UNCHANGED <<disk, parsed, stamp, moved, supplied, corrected>>
        /\ changed' = IF SameBytes(Here) THEN changed ELSE changed \cup {Here}
    BY <1>4 DEF Check, ProvenanceInv, DeliveryInv, sources, document
  <2>2. DOMAIN parsed = Files /\ DOMAIN stamp = Files
    BY <2>1 DEF ProvenanceInv, InRun, Stamped
  <2>3. \A f \in DOMAIN stamp \ moved : stamp[f] = parsed[f]
    BY <2>1 DEF ProvenanceInv, InRun
  <2>4. \A f \in (Behind \cup {Here}) \ (moved \cup changed') : disk[f] = stamp[f]
    BY <2>1 DEF ProvenanceInv, SameBytes
  <2>5. CASE Stop("refused")
    <3>1. step' = "refused"
      BY <2>5 DEF Stop
    <3> QED
      BY <2>1, <2>2, <3>1 DEF ProvenanceInv, InRun, Settled, Returned, Writing
  <2>6. CASE Advance("deciding") /\ ~(AtLast /\ changed' # {})
    <3>1. \/ step' = "checking" /\ Behind' = Behind \cup {Here}
          \/ step' = "deciding" /\ Behind \cup {Here} = Files /\ changed' = {}
      BY <1>0, <2>1, <2>6, AdvanceEffect
    <3> QED
      BY <2>1, <2>2, <2>3, <2>4, <3>1
      DEF ProvenanceInv, InRun, Settled, Returned, Writing, Stamped
  <2> QED
    BY <1>4, <2>5, <2>6 DEF Check
<1>5. CASE Decide
  <2>1. /\ step = "deciding" /\ step' \in {"attesting", "rendering", "refused"}
        /\ step' = "rendering" => supplied = Files
        /\ Beyond' = Files
    BY <1>5, StopEffect DEF Decide, DeliveryInv, EverySource, InRun
  <2>2. UNCHANGED <<disk, parsed, stamp, moved, corrected>> /\ Delivered = {}
    BY <1>5 DEF Decide, DeliveryInv, sources, document
  <2>3. Loaded /\ \A f \in DOMAIN stamp \ moved : stamp[f] = parsed[f]
    BY <2>1 DEF ProvenanceInv, InRun
  <2> QED
    BY <2>1, <2>2, <2>3
    DEF ProvenanceInv, InRun, Settled, Returned, Writing, Stamped, Delivered
<1>6. CASE Render
  <2>1. /\ step = "rendering"
        /\ UNCHANGED <<disk, parsed, stamp, moved>>
    BY <1>6 DEF Render, sources, document
  <2>2. Loaded /\ \A f \in DOMAIN stamp \ moved : stamp[f] = parsed[f]
    BY <2>1 DEF ProvenanceInv, InRun
  <2>3. CASE Stop("refused")
    <3>1. step' = "refused"
      BY <2>3 DEF Stop
    <3> QED
      BY <2>1, <2>2, <3>1 DEF ProvenanceInv, InRun, Settled, Returned, Writing
  <2>4. ASSUME Advance("attesting"),
               \A f \in Delivered' : \/ f \in Delivered /\ corrected'[f].of = corrected[f].of
                                     \/ f = Here /\ corrected'[f].of = disk[f]
        PROVE  ProvenanceInv'
    <3>1. \/ step' = "rendering" /\ Beyond' = Beyond \ {Here}
          \/ step' = "attesting"
      BY <1>0, <2>1, <2>4, AdvanceEffect
    <3>2. Stamped => \A f \in Delivered' \ moved : corrected'[f].of = stamp[f]
      <4>1. Stamped /\ Here \notin moved => disk[Here] = stamp[Here]
        BY <1>0, <2>1, Position DEF ProvenanceInv
      <4> QED
        BY <2>1, <2>4, <4>1 DEF ProvenanceInv
    <3>3. ~Stamped => \A f \in Delivered' \ moved : corrected'[f].of = disk[f]
      BY <2>1, <2>4 DEF ProvenanceInv
    <3> QED
      BY <2>1, <2>2, <3>1, <3>2, <3>3
      DEF ProvenanceInv, InRun, Settled, Returned, Writing, Stamped
  <2>5. Stop("refused") \/ (Advance("attesting") /\ corrected' = corrected)
        \/ \E reading \in Readings :
              /\ Advance("attesting")
              /\ \/ corrected' = corrected
                 \/ corrected' = Put(corrected, Here, [of |-> disk[Here], reading |-> reading])
    BY <1>6 DEF Render
  <2>6. CASE Advance("attesting") /\ corrected' = corrected
    BY <2>4, <2>6 DEF Delivered
  <2>7. ASSUME NEW reading, Advance("attesting"),
               corrected' = Put(corrected, Here, [of |-> disk[Here], reading |-> reading])
        PROVE  ProvenanceInv'
    <3>1. \A f \in Delivered' : \/ f \in Delivered /\ corrected'[f].of = corrected[f].of
                                \/ f = Here /\ corrected'[f].of = disk[f]
      BY <2>7 DEF Put, Delivered
    <3> QED
      BY <2>4, <2>7, <3>1
  <2> QED
    BY <2>3, <2>5, <2>6, <2>7
<1>7. CASE Attest
  <2>1. /\ step = "attesting" /\ step' \in {"refused", "returned"}
        /\ UNCHANGED <<disk, parsed, stamp, moved, corrected>>
        /\ step' = "returned" => attested' = [f \in supplied |-> DecidedOn[f]]
    BY <1>7 DEF Attest, Stop, sources, document
  <2>2. Loaded /\ \A f \in DOMAIN stamp \ moved : stamp[f] = parsed[f]
    BY <2>1 DEF ProvenanceInv, InRun
  <2>3. Delivered \subseteq supplied
    BY <2>1 DEF DeliveryInv, Settled
  <2>4. \A f \in Delivered \ moved : corrected[f].of = DecidedOn[f]
    BY <2>1 DEF ProvenanceInv, Settled, DecidedOn, Stamped
  <2>5. step' = "returned" => \A f \in Delivered \ moved : corrected[f].of = attested'[f]
    BY <2>1, <2>3, <2>4
  <2>6. Stamped => \A f \in Delivered \ moved : corrected[f].of = stamp[f]
    BY <2>1 DEF ProvenanceInv, Settled
  <2> QED
    BY <2>1, <2>2, <2>5, <2>6
    DEF ProvenanceInv, InRun, Settled, Returned, Writing, Stamped, Delivered
<1>8. ASSUME NEW allow \in BOOLEAN, BeginWrite(allow)
      PROVE  ProvenanceInv'
  BY <1>8, ProvenanceStill DEF BeginWrite, Stop, document, outcome, Writing
<1>9. CASE WriteFile \/ WriteReport \/ WriteSidecar \/ Cut
  <2>1. step \in Writing /\ step' \in {"files", "report", "sidecar", "written", "cut"}
    BY <1>9 DEF WriteFile, WriteReport, WriteSidecar, Cut, Stop, Advance, Writing
  <2>2. UNCHANGED <<parsed, stamp, moved, corrected, attested>>
    BY <1>9 DEF WriteFile, WriteReport, WriteSidecar, Cut, document, outcome
  <2> QED
    BY <2>1, <2>2, ProvenanceStill DEF Returned, Writing
<1>10. ASSUME NEW f \in Files, NEW content \in Contents, Replace(f, content)
      PROVE  ProvenanceInv'
  <2>1. /\ UNCHANGED <<parsed, stamp, step, at, supplied, changed, corrected, attested>>
        /\ disk' = [disk EXCEPT ![f] = content]
        /\ moved' = IF Unwatched(f) THEN moved \cup {f} ELSE moved
        /\ step \notin {"unloaded", "refused", "files", "report", "sidecar"} \cup Returned
    BY <1>10 DEF Replace, document, outcome
  <2>2. moved \subseteq moved' /\ \A g \in Files : g # f => disk'[g] = disk[g]
    BY <2>1 DEF OutputTypeOK
  <2>3. step \in {"loaded"} \cup InRun => Loaded
    BY <2>1 DEF ProvenanceInv
  <2>4. step = "checking" => \A g \in Behind \ (moved' \cup changed) : disk'[g] = stamp[g]
    <3> SUFFICES ASSUME step = "checking", NEW g \in Behind, g \notin moved', g \notin changed
                 PROVE  disk'[g] = stamp[g]
      OBVIOUS
    <3>1. g # f
      BY <1>0, <2>1, Position DEF Unwatched, Stamped, ProvenanceInv
    <3> QED
      BY <1>0, <2>2, <3>1, Position DEF ProvenanceInv
  <2>5. step = "deciding" /\ supplied = Files /\ Stamped =>
            \A g \in Files \ moved' : disk'[g] = stamp[g]
    BY <2>1, <2>2 DEF Unwatched, Stamped, ProvenanceInv
  <2>6. step = "rendering" /\ Stamped => \A g \in Beyond \ moved' : disk'[g] = stamp[g]
    <3> SUFFICES ASSUME step = "rendering", Stamped, NEW g \in Beyond, g \notin moved'
                 PROVE  disk'[g] = stamp[g]
      OBVIOUS
    <3>1. g \in Files /\ Unread(g)
      BY <1>0, Position
    <3>2. g # f
      BY <2>1, <3>1 DEF Unwatched, Stamped
    <3> QED
      BY <2>2, <3>1, <3>2 DEF ProvenanceInv
  <2>7. step \in {"rendering", "attesting"} /\ ~Stamped =>
            \A g \in Delivered \ moved' : corrected[g].of = disk'[g]
    <3> SUFFICES ASSUME step \in {"rendering", "attesting"}, ~Stamped,
                        NEW g \in Delivered, g \notin moved'
                 PROVE  corrected[g].of = disk'[g]
      OBVIOUS
    <3>1. g \in Files /\ (step = "rendering" => ~Unread(g))
      BY <1>0, Position DEF OutputTypeOK, DeliveryInv
    <3>2. g # f
      BY <2>1, <3>1 DEF Unwatched, Stamped
    <3> QED
      BY <2>2, <3>1, <3>2 DEF ProvenanceInv
  <2>8. step \in {"rendering"} \cup Settled /\ Stamped =>
            \A g \in Delivered \ moved' : corrected[g].of = stamp[g]
    BY <2>2 DEF ProvenanceInv
  <2>9. step \in InRun => \A g \in DOMAIN stamp \ moved' : stamp[g] = parsed[g]
    BY <2>2 DEF ProvenanceInv
  <2>10. /\ step = "parsing" => DOMAIN parsed = Behind /\ stamp = NoFile
         /\ step = "stamping" => DOMAIN parsed = Files /\ DOMAIN stamp = Behind
    BY DEF ProvenanceInv
  <2>11. Behind' = Behind /\ Beyond' = Beyond /\ Delivered' = Delivered
    BY <2>1 DEF Behind, Beyond, Delivered
  <2>12. step \notin Returned \cup Writing
    BY <2>1 DEF Writing
  <2> QED
    BY <2>1, <2>3, <2>4, <2>5, <2>6, <2>7, <2>8, <2>9, <2>10, <2>11, <2>12
    DEF ProvenanceInv, Stamped, InRun
<1>11. CASE UNCHANGED vars
  BY <1>11 DEF vars, sources, document, outcome, ProvenanceInv, Stamped, Delivered, Behind, Beyond
<1> QED
  BY <1>1, <1>2, <1>3, <1>4, <1>5, <1>6, <1>7, <1>8, <1>9, <1>10, <1>11 DEF Next

-----------------------------------------------------------------------------
LEMMA OutputInit == Init => OutputInv
<1> SUFFICES ASSUME Init
             PROVE  OutputInv
  OBVIOUS
<1>1. /\ at = 1 /\ Behind = {} /\ Delivered = {} /\ undeliverable = {}
      /\ step \in {"parsing", "loaded"} /\ parsed = NoFile /\ stamp = NoFile
  BY OrderFacts DEF Init, Behind, Delivered, NoFile
<1>2. OutputTypeOK
  <2>1. files \in [FileNames -> Entry] /\ sidecarFile \in Nat
    BY DEF Init, EmptyDirectory, Nothing, Entry
  <2>2. report \in [write : Nat, run : Nat, missing : SUBSET Files]
    BY DEF Init, EmptyDirectory, NoReport
  <2>3. disk \in [Files -> Contents]
    BY DEF Init, Contents
  <2>4. /\ filename \in [Files -> FileNames] /\ paged \in SUBSET Files
        /\ partial \in BOOLEAN /\ supplied \subseteq Files
        /\ writes \in Nat /\ run \in Nat
    BY DEF Init
  <2> QED
    BY <1>1, <2>1, <2>2, <2>3, <2>4, OrderFacts DEF Init, OutputTypeOK, NoFile
<1>3. DeliveryInv
  BY <1>1 DEF DeliveryInv, InRun, Returned, Writing, Settled
<1>4. WritingInv
  BY <1>1 DEF Init, WritingInv, Writing, EmptyDirectory, NoReport
<1>5. ProvenanceInv
  BY <1>1 DEF ProvenanceInv, InRun, Returned, Writing, Settled, NoFile
<1> QED
  BY <1>2, <1>3, <1>4, <1>5 DEF OutputInv

LEMMA OutputNext == OutputInv /\ [Next]_vars => OutputInv'
  BY OutputTypeNext, DeliveryNext, WritingNext, ProvenanceNext DEF OutputInv

(* Only what reads as it was decided leaves the program, by the result or  *)
(* by the directory, and every source of the run is delivered or withheld  *)
(* by name, whatever was replaced, cut, retried or run again               *)
(* (rendering.py, projection.py, result.py).                               *)
THEOREM OnlyFaithful == Spec => []OnlyFaithfulLeaves
<1>1. OutputInv => OnlyFaithfulLeaves
  BY DEF OutputInv, DeliveryInv, OutputTypeOK, OnlyFaithfulLeaves, Settled, Entry
<1> QED
  BY <1>1, OutputInit, OutputNext, PTL DEF Spec

LEMMA Reread == ASSUME NEW a, NEW b, NEW c, NEW d
                PROVE  [[run |-> a, of |-> b, reading |-> c] EXCEPT !.reading = d] =
                           [run |-> a, of |-> b, reading |-> d]
  OBVIOUS

(* The report of the last call of write() accounts for every source of the *)
(* run, also after calls that were cut (result.py).                        *)
THEOREM ReportAccounts == Spec => []ReportAccountsForAll
<1>1. OutputInv => ReportAccountsForAll
  <2> SUFFICES ASSUME OutputInv, report.write = writes, writes > 0, report.run = run
               PROVE  /\ report.missing # {} => partial
                      /\ \A f \in supplied \cap paged :
                            \/ f \in report.missing
                            \/ [files[filename[f]] EXCEPT !.reading = ""] =
                                   [run |-> report.run, of |-> f, reading |-> ""]
                      /\ sidecarFile <= report.run
    BY DEF ReportAccountsForAll
  <2>1. /\ report.missing # {} => partial
        /\ \A f \in supplied \cap paged : f \in report.missing \/ Written(f)
        /\ sidecarFile <= report.run
    BY DEF OutputInv, WritingInv
  <2>2. ASSUME NEW f \in supplied \cap paged, Written(f)
        PROVE  [files[filename[f]] EXCEPT !.reading = ""] =
                   [run |-> report.run, of |-> f, reading |-> ""]
    <3> DEFINE e == files[filename[f]]
    <3>1. /\ e \in Entry
          /\ e.run = report.run /\ e.of = f
      BY <2>2 DEF OutputInv, OutputTypeOK, Written
    <3> HIDE DEF e
    <3>2. PICK c : e = [run |-> report.run, of |-> f, reading |-> c]
      BY <3>1 DEF Entry
    <3>3. [e EXCEPT !.reading = ""] =
              [[run |-> report.run, of |-> f, reading |-> c] EXCEPT !.reading = ""]
      BY <3>2
    <3>4. @ = [run |-> report.run, of |-> f, reading |-> ""]
      BY Reread
    <3> QED
      BY <3>3, <3>4 DEF e
  <2> QED
    BY <2>1, <2>2
<1> QED
  BY <1>1, OutputInit, OutputNext, PTL DEF Spec

(* A delivered file is the rewrite of the bytes that were parsed and are   *)
(* attested, unless its source was replaced in one of the two windows no   *)
(* check looks into (preflight.py, provenance.py).                         *)
THEOREM DeliversWhatWasParsed == Spec => []DeliveredAsParsed
<1>1. OutputInv => DeliveredAsParsed
  <2> SUFFICES ASSUME OutputInv, step \in Returned, NEW f \in Delivered \ moved
               PROVE  /\ corrected[f].of = attested[f]
                      /\ f \in DOMAIN parsed => corrected[f].of = parsed[f]
    BY DEF DeliveredAsParsed
  <2>1. corrected[f].of = attested[f]
    BY DEF OutputInv, ProvenanceInv
  <2>2. ASSUME f \in DOMAIN parsed
        PROVE  corrected[f].of = parsed[f]
    <3>1. Stamped /\ f \in DOMAIN stamp
      BY <2>2 DEF OutputInv, ProvenanceInv, Stamped, NoFile
    <3> QED
      BY <3>1 DEF OutputInv, ProvenanceInv, Settled
  <2> QED
    BY <2>1, <2>2
<1> QED
  BY <1>1, OutputInit, OutputNext, PTL DEF Spec
=============================================================================
