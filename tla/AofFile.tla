------------------------------ MODULE AofFile ------------------------------
(***************************************************************************)
(* The append-only file (aof.rs) as a sequence of lines: a line reads as   *)
(* its entry, is not an entry ("corrupt", skipped by a load), or is not    *)
(* UTF-8 ("poison", which a load cannot pass); only the last line may lack *)
(* its newline.                                                            *)
(***************************************************************************)
EXTENDS Integers, Sequences, SequencesExt, Parts

Line(e, text, ended) == [entry |-> e, text |-> text, ended |-> ended]

\* Mutated form: a new line starts wherever the file ends.
AppendBytes_NewLine(lines, e, text, ended) == Append(lines, Line(e, text, ended))

\* Bytes appended to a file: behind a line that has no newline they become
\* part of it.
AppendBytes(lines, e, text, ended) ==
    IF lines = <<>> \/ Last(lines).ended THEN Append(lines, Line(e, text, ended))
    ELSE Append(Front(lines),
                Line(Last(lines).entry,
                     IF "poison" \in {Last(lines).text, text} THEN "poison" ELSE "corrupt",
                     ended))

\* What a cut line can be: all but the newline, half an entry, half a character.
Cuts == {"entry", "corrupt", "poison"}

\* Mutated form: a corrupt line ends the load with an error.
Readable_Strict(lines) == \A i \in DOMAIN lines : lines[i].text = "entry"

Readable(lines) == \A i \in DOMAIN lines : lines[i].text # "poison"

\* The entries a load finds, in the order of the file.
Entries(lines) ==
    LET good == Part(lines, {i \in DOMAIN lines : lines[i].text = "entry"})
    IN  [i \in DOMAIN good |-> good[i].entry]
=============================================================================
