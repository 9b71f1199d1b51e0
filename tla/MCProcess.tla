------------------------------ MODULE MCProcess ------------------------------
(***************************************************************************)
(* Many COFF files are converted and loaded; some of them are run, on two  *)
(* physical pages, of which the search for a free one looks at one.        *)
(***************************************************************************)
EXTENDS Process

\* The sections of the linker script, of these sizes, in order of address;
\* gap leaves a hole before each section, short cuts the file.
Coff(text, rdata, data, sbss, bss, gap, short, magic) ==
    LET names == <<".text", ".rdata", ".data", ".sbss", ".bss">>
        sizes == <<text, rdata, data, sbss, bss>>
        below[k \in 1..6] == IF k = 1 THEN 0 ELSE below[k - 1] + sizes[k - 1]
    IN  [magic |-> magic,
         sections |-> [k \in 1..5 |-> [name |-> names[k], size |-> sizes[k],
                                       paddr |-> below[k] + gap * (k - 1), scnptr |-> IF k < 4 THEN 4 + below[k] ELSE 0]],
         bytes |-> [o \in 1..(4 + below[4] - short) |-> 100 + o]]

\* Two pages of code and data, then the name "1 2" whose terminator starts a
\* page, and a page of stack.
Runs ==
    [Coff(2, 0, 4, 0, 0, 0, 0, TRUE) EXCEPT !.bytes = <<7, 7, 7, 7, 7, 7, 1, 2, 0, 1>>]

\* A page of code and a page of stack, for the threads.
Forks == Coff(2, 0, 0, 0, 0, 0, 0, TRUE)

\* A page of stack, for more threads than there are ids.
Crowd == Coff(0, 0, 0, 0, 0, 0, 0, TRUE)

Refused == Coff(1, 1, 2, 0, 0, 0, 0, TRUE)

ProgramsDef ==
    {Runs, Crowd} \cup
    {Coff(t, r, d, s, b, gap, short, magic) :
        t \in 1..2, r \in 0..1, d \in {0, 2}, s \in 0..1, b \in 0..1, gap \in {0, 3}, short \in 0..1, magic \in BOOLEAN}

\* Its data lies past the end of an address space of the size of its segments.
Overrunning == Coff(2, 0, 2, 0, 0, 3, 0, TRUE)

StartedDef == {Runs, Forks, Crowd, Refused, Overrunning}

MaxForksDef == [p \in StartedDef |-> CASE p = Forks -> 2 [] p = Crowd -> 3 [] OTHER -> 0]

BufferDef == {<<3, 2>>}

=============================================================================
