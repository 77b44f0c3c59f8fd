------------------------- MODULE MCPaginatedSearch -------------------------
(***************************************************************************)
(* Catalogs for PaginatedSearch.                                           *)
(***************************************************************************)
EXTENDS PaginatedSearch, TLC

\* Untagged items; keys with the same last digit tie in the sort.
Entries(keys) == [i \in 1 .. Len(keys) |->
                     [key |-> keys[i], rank |-> keys[i] % 10, via |-> Untagged]]

Symmetry == Permutations(Clients) \cup Permutations(Principals)

\* Origin 1 holds the newest items, 3 the oldest, and 2 shares one with 1.
MirroredCatalog == <<Entries(<<1, 2>>), Entries(<<2, 12, 3>>), Entries(<<5, 6, 8, 9>>)>>

\* Two origins, one of which mirrors items of the other.
SmallCatalog == <<Entries(<<1, 2, 4>>), Entries(<<2, 3>>)>>

\* Origin 2 is itself a proxy and has tagged its items with an ID of its own.
ChainedCatalog == <<Entries(<<1, 2>>),
                    [i \in 1 .. 3 |-> [key |-> i + 2, rank |-> i + 2, via |-> 99]]>>

=============================================================================
