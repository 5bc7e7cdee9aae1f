---------------------------- MODULE LeakDetector ----------------------------
(***************************************************************************)
(* The leak detector: malloc, calloc and free are replaced by functions    *)
(* that keep a linked list of records, one for each block in use.          *)
(* ptr_start points to the first record, ptr_next to the last one added.   *)
(*                                                                         *)
(* Records and blocks come from one heap (Chunks), and the allocator       *)
(* (external) may hand out again what has been freed: a pointer that is    *)
(* not updated may point to free memory, to a block or to another record.  *)
(* What freed memory and blocks hold is not modelled: nothing reads it.    *)
(***************************************************************************)
EXTENDS Naturals, Sequences, FiniteSets, SequencesExt

CONSTANTS
  Chunks,       \* pieces of memory the allocator can hand out
  Null,         \* NULL
  IndexMod      \* 2^16 in the code: "unsigned short index"

ASSUME LeakAssumption ==
  /\ IsFiniteSet(Chunks)
  /\ Null \notin Chunks
  /\ IndexMod \in Nat \ {0}

VARIABLES
  role,         \* role[m]: "free", "block", "foreign" or "record"
  address,      \* address[m]: the block record m is about
  next,         \* next[m]: the record after m
  ptr_start,
  ptr_next,
  ended,        \* the process is over: report written, or a fault
  reported,     \* blocks the report named
  inUse,        \* history: blocks in use, in order of allocation
  tailErased,   \* history: a last record other than the first was erased
  wrapped,      \* history: index has wrapped while a record was looked for
  overwritten   \* history: blocks the detector has written into

listVars == <<address, next, ptr_start, ptr_next>>
vars == <<role, listVars, ended, reported, inUse, tailErased, wrapped,
          overwritten>>

Init ==
  /\ role = [m \in Chunks |-> "free"]
  /\ address = [m \in Chunks |-> Null]
  /\ next = [m \in Chunks |-> Null]
  /\ ptr_start = Null
  /\ ptr_next = Null
  /\ ended = FALSE
  /\ reported = {}
  /\ inUse = <<>>
  /\ tailErased = FALSE
  /\ wrapped = FALSE
  /\ overwritten = {}

\* The record reached after k steps from ptr_start; no list is longer than the heap.
Nth[k \in 0 .. Cardinality(Chunks)] ==
  IF k = 0 THEN ptr_start
  ELSE IF Nth[k - 1] = Null THEN Null ELSE next[Nth[k - 1]]

Count == CHOOSE k \in 0 .. Cardinality(Chunks) :
           Nth[k] = Null /\ \A j \in 0 .. k - 1 : Nth[j] # Null
Listed == [k \in 1 .. Count |-> address[Nth[k - 1]]]

-----------------------------------------------------------------------------

\* The effect of "ptr_next->next = m" on the records, m being the new one.
Linked(m) == [next EXCEPT ![m] = Null,
                          ![ptr_next] = IF role[ptr_next] = "record" \/ ptr_next = m
                                        THEN m ELSE @]

\* Mutant of Add: the list is taken for empty by the wrong pointer.
Add_TestsNext(b, m) ==
  /\ role' = [role EXCEPT ![b] = "block", ![m] = "record"]
  /\ address' = [address EXCEPT ![m] = b]
  /\ ptr_next' = m
  /\ IF ptr_next = Null
     THEN /\ ptr_start' = m
          /\ next' = [next EXCEPT ![m] = Null]
          /\ UNCHANGED overwritten
     ELSE /\ next' = Linked(m)
          /\ overwritten' = overwritten \cup
               {x \in {ptr_next} : role'[x] \in {"block", "foreign"}}
          /\ UNCHANGED ptr_start
  /\ UNCHANGED ended

\* Mutant of Add: size and address are swapped.
Add_Swapped(b, m) ==
  /\ ptr_start = Null
  /\ role' = [role EXCEPT ![b] = "block", ![m] = "record"]
  /\ address' = [address EXCEPT ![m] = 1]
  /\ ptr_next' = m
  /\ ptr_start' = m
  /\ next' = [next EXCEPT ![m] = Null]
  /\ UNCHANGED <<overwritten, ended>>

\* add: the new record m is linked to wherever ptr_next points.
Add(b, m) ==
  /\ role' = [role EXCEPT ![b] = "block", ![m] = "record"]
  /\ address' = [address EXCEPT ![m] = b]
  /\ ptr_next' = m
  /\ IF ptr_start = Null
     THEN /\ ptr_start' = m
          /\ next' = [next EXCEPT ![m] = Null]
          /\ UNCHANGED overwritten
     ELSE /\ next' = Linked(m)
          /\ overwritten' = overwritten \cup
               {x \in {ptr_next} : role'[x] \in {"block", "foreign"}}
          /\ UNCHANGED ptr_start
  /\ UNCHANGED ended

\* add does not look whether it got memory for the record, and faults.
NoMemoryForRecord(b) ==
  /\ role' = [role EXCEPT ![b] = "block"]
  /\ ended' = TRUE
  /\ UNCHANGED <<listVars, overwritten>>

\* xmalloc and xcalloc, with add_mem_info: the block b is allocated before the
\* memory for its record.
Xmalloc ==
  /\ ~ended
  /\ \E b \in Chunks :
       /\ role[b] = "free"
       /\ inUse' = Append(inUse, b)
       /\ \/ \E m \in Chunks \ {b} : role[m] = "free" /\ Add(b, m)
          \/ NoMemoryForRecord(b)
  /\ UNCHANGED <<reported, tailErased, wrapped>>

\* malloc in a file that does not include the detector
PlainMalloc ==
  /\ ~ended
  /\ \E b \in Chunks :
       /\ role[b] = "free"
       /\ role' = [role EXCEPT ![b] = "foreign"]
  /\ UNCHANGED <<listVars, ended, reported, inUse, tailErased, wrapped,
                 overwritten>>

\* Mutant of Erase: the record behind the one asked for is unlinked.
Erase_Behind(pos) ==
  /\ IF pos = 0
     THEN ptr_start' = next[Nth[0]] /\ UNCHANGED next
     ELSE /\ next' = [next EXCEPT ![Nth[pos]] =
                         IF Nth[pos + 1] = Null THEN Null ELSE Nth[pos + 2]]
          /\ UNCHANGED ptr_start
  /\ tailErased' = (tailErased \/ (pos > 0 /\ pos = Count - 1))
  /\ UNCHANGED <<address, ptr_next>>

\* erase(pos) unlinks the record at pos.  ptr_next is left alone.
Erase(pos) ==
  /\ IF pos = 0
     THEN /\ ptr_start' = next[Nth[0]]
          /\ next' = [next EXCEPT ![Nth[0]] = Null]
     ELSE /\ next' = [next EXCEPT ![Nth[pos - 1]] = next[Nth[pos]],
                                 ![Nth[pos]] = Null]
          /\ UNCHANGED ptr_start
  /\ address' = [address EXCEPT ![Nth[pos]] = Null]
  /\ tailErased' = (tailErased \/ (pos > 0 /\ pos = Count - 1))
  /\ UNCHANGED ptr_next

\* Mutant of Xfree: remove_mem_info is not called.
Xfree_KeepsRecord ==
  /\ ~ended
  /\ \E b \in Chunks :
       /\ role[b] \in {"block", "foreign"}
       /\ role' = [role EXCEPT ![b] = "free"]
       /\ inUse' = RemoveFirst(inUse, b)
  /\ UNCHANGED <<listVars, ended, reported, tailErased, wrapped, overwritten>>

\* xfree: remove_mem_info looks for the block's record, counting in 16 bits,
\* and has it erased and freed; then the block is freed.
Xfree ==
  /\ ~ended
  /\ \E b \in Chunks :
       LET found == {k \in 0 .. Count - 1 : address[Nth[k]] = b}
           index == Min(found) % IndexMod IN
       /\ role[b] \in {"block", "foreign"}
       /\ IF found = {}
          THEN /\ role' = [role EXCEPT ![b] = "free"]
               /\ UNCHANGED <<listVars, tailErased, wrapped>>
          ELSE /\ role' = [role EXCEPT ![Nth[index]] = "free", ![b] = "free"]
               /\ Erase(index)
               /\ wrapped' = (wrapped \/ Min(found) >= IndexMod)
       /\ inUse' = RemoveFirst(inUse, b)
  /\ UNCHANGED <<ended, reported, overwritten>>

\* report_mem_leak, with clear: every record is freed.  ptr_start is left
\* pointing to the first of them; what the process does after that is not
\* modelled.
ReportMemLeak ==
  /\ ~ended
  /\ reported' = ToSet(Listed)
  /\ role' = [m \in Chunks |-> IF \E k \in 0 .. Count - 1 : Nth[k] = m
                             THEN "free" ELSE role[m]]
  /\ ended' = TRUE
  /\ UNCHANGED <<listVars, inUse, tailErased, wrapped, overwritten>>

Next == Xmalloc \/ PlainMalloc \/ Xfree \/ ReportMemLeak

Spec == Init /\ [][Next]_vars

-----------------------------------------------------------------------------
(* Properties. *)

TypeOK ==
  /\ role \in [Chunks -> {"free", "block", "foreign", "record"}]
  /\ address \in [Chunks -> Chunks \cup {Null}]
  /\ next \in [Chunks -> Chunks \cup {Null}]
  /\ ptr_start \in Chunks \cup {Null}
  /\ ptr_next \in Chunks \cup {Null}
  /\ ended \in BOOLEAN
  /\ reported \subseteq Chunks
  /\ inUse \in Seq(Chunks)
  /\ tailErased \in BOOLEAN
  /\ wrapped \in BOOLEAN
  /\ overwritten \subseteq Chunks

\* SAFETY.  As long as the last record has never been erased from behind
\* another one, and no position was too great for index, the list is exact: the
\* blocks in use, in order of allocation.
ListExact ==
  ~ended /\ ~tailErased /\ ~wrapped =>
    /\ Listed = inUse
    /\ Count > 0 => ptr_next = Nth[Count - 1]

\* SAFETY.  Until the former, the detector writes into its own records only, a
\* wrong one perhaps.  After it, ptr_next may point into a block that the program
\* has been given.
OwnMemoryOnly == tailErased \/ overwritten = {}

\* SAFETY.  "if the allocated memory info is part of the list, removes it":
\* the list and the report name only blocks that are in use.  They do, whatever
\* was erased, until a record is found at a position that index cannot count:
\* then another record is erased, and the freed block stays listed.
OnlyBlocksInUse ==
  wrapped \/ /\ ~ended => ToSet(Listed) \subseteq ToSet(inUse)
             /\ reported \subseteq ToSet(inUse)

\* The documented promise of add, "adds allocated memory info. into the list":
\* every block in use is listed.
EveryBlockListed == ~ended => ToSet(inUse) \subseteq ToSet(Listed)
=============================================================================
