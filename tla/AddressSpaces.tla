--------------------------- MODULE AddressSpaces ----------------------------
(***************************************************************************)
(* What the page tables promise: every user address space is a partial map  *)
(* from virtual pages to frames with permissions, and an operation on one    *)
(* address space changes the pages it names in that space and nothing else.  *)
(***************************************************************************)
EXTENDS Naturals

CONSTANTS User,     \* the user page tables there can be
          UserPage, \* the virtual pages of the user half
          Frame,    \* the page frames that can be mapped
          Perm,     \* the permission sets of a mapping
          MaxPages  \* the largest block that is mapped at once

\* No such space, and no mapping (frame 0 is never mapped).
Absent == <<>>
Unmapped == [ppn |-> 0, perm |-> {}]

VARIABLE space

MapEntry == [ppn : Frame, perm : Perm]

SpacesInit == space = [t \in User |-> Absent]

create(t) == /\ space[t] = Absent
             /\ space' = [space EXCEPT ![t] = [v \in UserPage |-> Unmapped]]

destroy(t) == /\ space[t] = [v \in UserPage |-> Unmapped]
              /\ space' = [space EXCEPT ![t] = Absent]

\* The n pages from v on are mapped together, and only if none of them was.
map(t, v, n, f, perm) ==
  /\ space[t] # Absent
  /\ \A k \in 0..n-1 : v + k \in UserPage /\ space[t][v + k] = Unmapped
  /\ space' = [space EXCEPT ![t] = [w \in UserPage |->
                 IF w \in v..v+n-1 THEN [ppn |-> f + (w - v), perm |-> perm] ELSE @[w]]]

unmap(t, v, n) ==
  /\ space[t] # Absent
  /\ \A k \in 0..n-1 : v + k \in UserPage
  /\ space' = [space EXCEPT ![t] = [w \in UserPage |->
                 IF w \in v..v+n-1 THEN Unmapped ELSE @[w]]]

protect(t, v, perm) ==
  /\ space[t] # Absent
  /\ space[t][v] # Unmapped
  /\ space' = [space EXCEPT ![t] = [@ EXCEPT ![v] = [ppn |-> @.ppn, perm |-> perm]]]

SpacesNext ==
  \E t \in User :
    \/ create(t)
    \/ destroy(t)
    \/ \E v \in UserPage, n \in 1..MaxPages :
         \/ unmap(t, v, n)
         \/ \E f \in Frame, perm \in Perm : map(t, v, n, f, perm)
    \/ \E v \in UserPage, perm \in Perm : protect(t, v, perm)

SpacesSpec == SpacesInit /\ [][SpacesNext]_space
=============================================================================
