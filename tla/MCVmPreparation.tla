--------------------------- MODULE MCVmPreparation ---------------------------
(* One evaluation that reuses the cache and one `prepare` that refreshes it. *)
(* The guest binaries of all versions have the same size.                    *)
EXTENDS ImageCache

CONSTANTS p1, p2

MCSize == [v \in Versions |-> 10]
MCLayersOf == [d \in Digests |-> IF d = 1 THEN {"a"} ELSE {"a", "b"}]
MCFilesOf == [d \in Digests |-> IF d = 1 THEN {"sh"} ELSE {}]
MCStages == [plain |-> <<[base |-> 1, copies |-> {}, from |-> {}, runs |-> FALSE]>>,
             built |-> <<[base |-> 1, copies |-> {}, from |-> {}, runs |-> FALSE],
                         [base |-> 1, copies |-> {2}, from |-> {1}, runs |-> TRUE]>>]
MCTagged == [t \in Tags |-> 1]
MCTodo == [p \in Processes |-> IF p = p1 THEN <<"built">> ELSE <<"plain", "built">>]
=============================================================================
