----------------------------- MODULE NsSections -----------------------------
(***************************************************************************)
(* Sections of Linux's memory in the translation table of the secure world *)
(* (arch/arm/armv7/page_table.c): a section is mapped, at the address that *)
(* Linux has it at, for each buffer a call passes, and a list counts how   *)
(* often.                                                                  *)
(***************************************************************************)
EXTENDS Naturals

CONSTANT NsSec  \* sections of Linux's memory

VARIABLES
    nsent, \* the sections that are mapped
    nsref, \* page_ref_list: the count of each section, 0 when it has none
    noref  \* history: a count could not be allocated

nsvars == <<nsent, nsref, noref>>

NsInit == nsent = {} /\ noref = FALSE /\ nsref = [s \in NsSec |-> 0]

\* page_ref_add, called once the entry is there; no memory, no count, and
\* nobody looks.
page_ref_add(s) ==
    \/ nsref' = [nsref EXCEPT ![s] = @ + 1] /\ UNCHANGED noref
    \/ nsref[s] = 0 /\ UNCHANGED nsref /\ noref' = TRUE

map_ns_section_entry(s) == nsent' = nsent \cup {s} /\ page_ref_add(s)

\* __map_to_ns.
map_to_ns(s) == map_ns_section_entry(s)

\* The references left; the node goes with the last one, and a section without
\* a node has none to release (an error).
page_ref_release(s) == nsref' = IF nsref[s] > 0 THEN [nsref EXCEPT ![s] = @ - 1] ELSE nsref

\* The entry goes with the last reference, and stays when there is none to
\* release.
unmap_ns_section_entry(s) ==
    /\ IF s \in nsent THEN page_ref_release(s) ELSE UNCHANGED nsref
    /\ nsent' = IF s \in nsent /\ nsref[s] = 1 THEN nsent \ {s} ELSE nsent
    /\ UNCHANGED noref

unmap_from_ns(s) == unmap_ns_section_entry(s)
=============================================================================
