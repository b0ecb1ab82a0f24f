-------------------------------- MODULE Files --------------------------------
(***************************************************************************)
(* What the file library promises a program: a file is a sequence of       *)
(* bytes, an open file a position in it. A call acts at once and on one    *)
(* file, or fails and leaves every file as it was; only when opening a     *)
(* file to make it empty fails may the file be gone. What is on a card     *)
(* that is put in is no promise of the library.                            *)
(***************************************************************************)
EXTENDS Integers, Sequences

CONSTANTS
    Names,
    NoFile              \* stands for the bytes of a file that does not exist

VARIABLES
    content,            \* the bytes of each file
    position,           \* in each open file; -1 if it is not open
    result              \* of the last call: how it ended, and the bytes that
                        \* it read, or that it was given to write

filesVars == <<content, position, result>>

Absent(n) == content[n] = NoFile
IsOpen(n) == position[n] # -1
Ended(how) == result' = [ended |-> how, bytes |-> <<>>]

Open(n) ==
    /\ ~IsOpen(n)
    /\ \/ /\ Ended("done")
          /\ \/ ~Absent(n) /\ UNCHANGED content
             \/ content' = [content EXCEPT ![n] = <<>>]
          /\ \E p \in {0, Len(content'[n])} : position' = [position EXCEPT ![n] = p]
       \/ /\ Ended("failed") /\ UNCHANGED position
          /\ content' \in {content, [content EXCEPT ![n] = NoFile]}

Close(n) ==
    /\ IsOpen(n) /\ Ended("done")
    /\ position' = [position EXCEPT ![n] = -1]
    /\ UNCHANGED content

Flush(n) == IsOpen(n) /\ Ended("done") /\ UNCHANGED <<content, position>>

(* The bytes from the position on.                                         *)
Read(n) ==
    /\ IsOpen(n) /\ result'.ended = "done"
    /\ position' = [position EXCEPT ![n] = @ + Len(result'.bytes)]
    /\ position'[n] <= Len(content[n])
    /\ result'.bytes = SubSeq(content[n], position[n] + 1, position'[n])
    /\ UNCHANGED content

(* All the bytes that were given, in their order and at the end of the     *)
(* file, or none.                                                          *)
Write(n) ==
    /\ IsOpen(n)
    /\ \/ /\ result'.ended = "done" /\ position[n] = Len(content[n])
          /\ content' = [content EXCEPT ![n] = @ \o result'.bytes]
          /\ position' = [position EXCEPT ![n] = Len(content'[n])]
       \/ result'.ended = "failed" /\ UNCHANGED <<content, position>>

Seek(n) ==
    /\ IsOpen(n) /\ UNCHANGED content
    /\ Ended("done") \/ Ended("failed")
    /\ \E p \in 0 .. Len(content[n]) : position' = [position EXCEPT ![n] = p]

Remove(n) ==
    /\ ~IsOpen(n) /\ UNCHANGED position
    /\ \/ Ended("done") /\ ~Absent(n) /\ content' = [content EXCEPT ![n] = NoFile]
       \/ Ended("failed") /\ Absent(n) /\ UNCHANGED content

Rename(n, m) ==
    /\ ~IsOpen(n) /\ UNCHANGED position
    /\ \/ /\ Ended("done") /\ ~Absent(n) /\ Absent(m)
          /\ content' = [content EXCEPT ![m] = content[n], ![n] = NoFile]
       \/ Ended("failed") /\ (Absent(n) \/ ~Absent(m)) /\ UNCHANGED content

CardOut == Ended("failed") /\ \A n \in Names : content'[n] = NoFile /\ position'[n] = -1
CardIn == Ended("done") /\ (\A n \in Names : Absent(n)) /\ UNCHANGED position

FilesNext ==
    \/ \E n \in Names : \/ Open(n) \/ Close(n) \/ Flush(n) \/ Read(n) \/ Write(n)
                        \/ Seek(n) \/ Remove(n)
    \/ \E n, m \in Names : Rename(n, m)
    \/ CardOut \/ CardIn

FilesSpec == (\A n \in Names : ~IsOpen(n)) /\ [][FilesNext]_filesVars
=============================================================================
