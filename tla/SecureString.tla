------------------------------ MODULE SecureString ------------------------------
(***************************************************************************)
(* SecureString of include/duckpass/secure_allocator.h: a vector of        *)
(* characters that ends with a NUL and whose memory is cleansed wherever a *)
(* secret would stay behind.  The value is the vector's memory with its    *)
(* whole capacity, and the size of the text in it: the cell after the text *)
(* holds the NUL, the cells after that are spare.                          *)
(*                                                                         *)
(* A vector that grows frees its old memory with OPENSSL_secure_free,      *)
(* which cleanses it, so only the memory in use matters.                   *)
(***************************************************************************)
EXTENDS Naturals, Sequences

Nul == 0

Str == [mem : Seq(Nat), size : Nat]

Text(s) == SubSeq(s.mem, 1, s.size)
Zeros(k) == [i \in 1..k |-> Nul]
Cleansed(mem) == Zeros(Len(mem))

\* A string constructed from a text: no spare capacity.
Fresh(t) == [mem |-> Append(t, Nul), size |-> Len(t)]

\* Memory with the cells from p on overwritten by t; the rest stays as it is.
Write(mem, p, t) ==
    SubSeq(mem, 1, p - 1) \o t \o SubSeq(mem, p + Len(t), Len(mem))

\* append, push_back and +=: over the NUL, and a new NUL.
append(s, t) ==
    [mem |-> Write(s.mem, s.size + 1, Append(t, Nul)), size |-> s.size + Len(t)]
push_back(s, ch) == append(s, <<ch>>)

\* The last character is overwritten before it is given up.
pop_back(s) ==
    IF s.size = 0 THEN s
    ELSE [mem |-> Write(s.mem, s.size, <<Nul>>), size |-> s.size - 1]

\* assign from elsewhere: cleanse, then copy.
assign(s, t) ==
    [mem |-> Write(Cleansed(s.mem), 1, Append(t, Nul)), size |-> Len(t)]

\* Mutant of assign_own: the memory is cleansed before it is read.
AssignUnaliased(s, k) == assign(s, SubSeq(Cleansed(s.mem), 1, k))

\* assign of the first k of its own characters: through a temporary, whose
\* memory the string takes over.  An empty range is not noticed as its own.
assign_own(s, k) == IF k = 0 THEN assign(s, <<>>) ELSE Fresh(SubSeq(s.mem, 1, k))

\* Mutant of erase: the cells behind the new end keep what they held.
EraseLeavesRest(s, a, b) ==
    IF a > b THEN s
    ELSE [mem |-> Write(s.mem, a, SubSeq(s.mem, b + 1, s.size + 1)),
          size |-> s.size - (b - a + 1)]

\* erase the characters a..b: the rest and the NUL move up, and everything
\* behind the NUL is cleansed.
erase(s, a, b) ==
    IF a > b THEN s
    ELSE LET kept == SubSeq(s.mem, 1, a - 1) \o SubSeq(s.mem, b + 1, s.size + 1)
         IN  [mem |-> kept \o Zeros(Len(s.mem) - Len(kept)), size |-> Len(kept) - 1]

\* A string ends with a NUL and holds nothing behind it.
Clean(s) ==
    /\ Len(s.mem) > s.size
    /\ \A i \in (s.size + 1)..Len(s.mem) : s.mem[i] = Nul

===============================================================================
