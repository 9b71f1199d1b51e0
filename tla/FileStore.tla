----------------------------- MODULE FileStore -------------------------------
(***************************************************************************)
(* What the file system promises its callers (filesys/filesys.h and        *)
(* filesys/openfile.h): a file is a row of bytes of a length that is fixed *)
(* when it is created; whoever opens it reads and writes at a position of  *)
(* its own.  The pipe is a file that is always there and is read and       *)
(* written from its beginning.                                             *)
(***************************************************************************)
EXTENDS Integers, Sequences

CONSTANTS File, Fds, Sizes, Positions, Lengths, Byte, PipeFileSize, Blank,
  Pipe, NULL

VARIABLES
  contents,  \* the bytes of each file, NULL if there is no such file
  at,        \* each descriptor's file and position, NULL if it is closed
  answer     \* the bytes that the latest call of Read returned

storeVars == <<contents, at, answer>>

StoreInit ==
  /\ contents =
       [f \in File |->
          IF f = Pipe THEN [i \in 1..PipeFileSize |-> Blank] ELSE NULL]
  /\ at = [fd \in Fds |-> NULL]
  /\ answer = <<>>

Least(a, b) == IF a < b THEN a ELSE b

\* How many of n bytes at position p lie within a file that holds c.
Within(c, p, n) == IF p < Len(c) THEN Least(n, Len(c) - p) ELSE 0

\* c with the bytes from position p on replaced; it does not grow.
Overwritten(c, p, bytes) ==
  [i \in DOMAIN c |-> IF i - p \in DOMAIN bytes THEN bytes[i - p] ELSE c[i]]

\* A new file holds what its sectors held: nothing yet, or, if Create wrote a
\* header to a free sector by mistake, bytes that nobody wrote to a file.
Create(f, size) ==
  /\ answer' = <<>>
  /\ UNCHANGED at
  /\ contents[f] = NULL
  /\ contents'[f] \in [1..size -> {Blank, NULL}]
  /\ contents' = [contents EXCEPT ![f] = contents'[f]]

Open(fd, f) ==
  /\ answer' = <<>>
  /\ at' = [at EXCEPT ![fd] = [file |-> f, position |-> 0]]
  /\ contents[f] # NULL
  /\ UNCHANGED contents

Close(fd) ==
  /\ answer' = <<>>
  /\ at' = [at EXCEPT ![fd] = NULL]
  /\ UNCHANGED contents

Seek(fd, p) ==
  /\ answer' = <<>>
  /\ at[fd] # NULL
  /\ at' = [at EXCEPT ![fd].position = p]
  /\ UNCHANGED contents

Read(fd, n) ==
  /\ at[fd] # NULL
  /\ LET p == at[fd].position
         c == contents[at[fd].file]
         k == Within(c, p, n)
     IN  /\ at' = [at EXCEPT ![fd].position = p + k]
         /\ answer' = IF k = 0 THEN <<>> ELSE SubSeq(c, p + 1, p + k)
  /\ UNCHANGED contents

Write(fd, bytes) ==
  /\ answer' = <<>>
  /\ at[fd] # NULL
  /\ LET f == at[fd].file
         p == at[fd].position
         c == contents[f]
     IN  /\ at' = [at EXCEPT ![fd].position = p + Within(c, p, Len(bytes))]
         /\ contents' = [contents EXCEPT ![f] = Overwritten(c, p, bytes)]

\* The machine stops in the middle of a Write: some first bytes are there.
TornWrite(fd, bytes) ==
  /\ answer' = <<>>
  /\ at[fd] # NULL
  /\ UNCHANGED at
  /\ LET f == at[fd].file
         c == contents[f]
     IN  \E k \in 0..Len(bytes) :
           contents' = [contents EXCEPT ![f] =
                          Overwritten(c, at[fd].position, SubSeq(bytes, 1, k))]

ReadPipe(n) ==
  /\ UNCHANGED at
  /\ LET c == contents[Pipe] IN answer' = SubSeq(c, 1, Within(c, 0, n))
  /\ UNCHANGED contents

WritePipe(bytes) ==
  /\ answer' = <<>>
  /\ UNCHANGED at
  /\ contents' =
       [contents EXCEPT ![Pipe] = Overwritten(contents[Pipe], 0, bytes)]

\* A call that fails, or that has no effect yet.
Refuse ==
  /\ answer' = <<>>
  /\ UNCHANGED <<at, contents>>

StoreNext ==
  \/ Refuse
  \/ \E fd \in Fds :
       \/ Close(fd)
       \/ \E p \in Positions : Seek(fd, p)
       \/ \E f \in File \ {Pipe} : Open(fd, f)
       \/ \E n \in Lengths : Read(fd, n)
  \/ \E n \in Lengths : ReadPipe(n)
  \/ \E fd \in Fds, n \in Lengths : \E bytes \in Byte[n] :
       Write(fd, bytes) \/ TornWrite(fd, bytes)
  \/ \E n \in Lengths : \E bytes \in Byte[n] : WritePipe(bytes)
  \/ \E f \in File, size \in Sizes : Create(f, size)

StoreSpec == StoreInit /\ [][StoreNext]_storeVars
=============================================================================
