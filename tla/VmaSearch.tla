------------------------------ MODULE VmaSearch ------------------------------
(***************************************************************************)
(* The address-space search of MmStruct (kernel/src/mm/mm.rs), shared by   *)
(* the user mappings (Mm) and the kernel mappings (Kmap).  The BTreeMap    *)
(* "vmas" is a function from start addresses to records with a field       *)
(* "end".  The build is the default debug build, so a failed debug_assert  *)
(* and a usize subtraction below zero both panic.                          *)
(***************************************************************************)
EXTENDS Integers, FiniteSets, FiniteSetsExt

CONSTANT PAGE_SIZE

ASSUME PageSizeAssumption == PAGE_SIZE \in Nat \ {0}

\* Option::None, and the two ways in which the search panics.
None == -1
AssertPanic == -2
OverflowPanic == -3
Panics == {AssertPanic, OverflowPanic}

is_align(a) == a % PAGE_SIZE = 0
floor(a) == a - (a % PAGE_SIZE)
ceil(a) == floor(a + PAGE_SIZE - 1)

\* BTreeMap::range(lo..hi): the start addresses in it.
in_range(vs, lo, hi) == {s \in DOMAIN vs : lo <= s /\ s < hi}

in_vma(vs, s, a) == s <= a /\ a < vs[s].end

\* The first mapping, in address order, that contains a.
find_vma(vs, a) ==
  LET hits == {s \in DOMAIN vs : in_vma(vs, s, a)}
  IN IF hits = {} THEN None ELSE Min(hits)

\* Only a mapping that STARTS at or above v is looked at.
__alloc_unmapped_fixed(vs, v, len, range_end) ==
  LET above == in_range(vs, v, range_end)
  IN IF above # {} /\ Min(above) - v < len THEN None ELSE v

\* Gaps are visited from range_start upwards.  A gap of negative length can
\* only be met when two mappings overlap.
__search_to_high(vs, len, range_start, range_end) ==
  LET here == in_range(vs, range_start, range_end)
      last_end(s) == LET lower == {t \in here : t < s}
                     IN IF lower = {} THEN range_start ELSE vs[Max(lower)].end
      stops == here \cup {range_end}
      inv(s) == s - last_end(s)
      fits == {s \in stops : len <= inv(s)}
      passed == {s \in stops : fits = {} \/ s <= Min(fits)}
  IN IF \E s \in passed : inv(s) < 0 THEN OverflowPanic
     ELSE IF fits = {} THEN None ELSE last_end(Min(fits))

\* Gaps are visited from range_end downwards; the lowest one ends at range_start.
__search_to_low(vs, len, range_start, range_end) ==
  LET here == in_range(vs, range_start, range_end)
      last_start(s) == LET upper == {t \in here : t > s}
                       IN IF upper = {} THEN range_end ELSE Min(upper)
      floors == here \cup {range_start - 1}
      inv(s) == last_start(s) - (IF s \in here THEN vs[s].end ELSE range_start)
      fits == {s \in floors : len <= inv(s)}
      passed == {s \in floors : fits = {} \/ s >= Max(fits)}
  IN IF \E s \in passed : inv(s) < 0 THEN OverflowPanic
     ELSE IF fits = {} THEN None ELSE last_start(Max(fits)) - len

\* The start of the new mapping, None, or a panic.
__alloc_unmapped_core(vs, vaddr, len, to_high, range_start, range_end) ==
  CASE ~is_align(len) -> AssertPanic
    [] len >= range_end - range_start -> None
    [] vaddr # None /\ vaddr + len > range_end -> None
    [] vaddr # None /\ (~is_align(vaddr) \/ vaddr < range_start \/ vaddr >= range_end) ->
         AssertPanic
    [] vaddr # None -> __alloc_unmapped_fixed(vs, vaddr, len, range_end)
    [] to_high -> __search_to_high(vs, len, range_start, range_end)
    [] OTHER -> __search_to_low(vs, len, range_start, range_end)
=============================================================================
