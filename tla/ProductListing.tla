-------------------------- MODULE ProductListing ---------------------------
(* How GET /products/ filters, sorts and pages the products table.  The     *)
(* table is a function from ids to rows; a name is its place in the         *)
(* collation order, and a search term is the set of names it matches.       *)
EXTENDS Integers, SequencesExt

CONSTANT None    \* an absent filter

\* apply_product_filters
Selected(row, q) ==
    /\ q.search = None \/ row.name \in q.search
    /\ q.min_price = None \/ row.price >= q.min_price
    /\ q.max_price = None \/ row.price <= q.max_price
    /\ q.in_stock = None \/ (IF q.in_stock THEN row.stock > 0 ELSE row.stock = 0)

Matching(table, q) == {i \in DOMAIN table : Selected(table[i], q)}

\* The answer of 400 is for a range that is empty by construction.
BadRange(q) == q.min_price # None /\ q.max_price # None /\ q.min_price > q.max_price

\* A field that is not in VALID_PRODUCT_SORT_FIELDS sorts by id.  created_at
\* is set before the INSERT, and nothing relates it to the ids of two processes:
\* one key for all stands for any order.
SortKey(table, i, q) == CASE q.sort_by = "name"  -> table[i].name
                          [] q.sort_by = "price" -> table[i].price
                          [] q.sort_by = "stock" -> table[i].stock
                          [] q.sort_by = "created_at" -> 0
                          [] OTHER               -> i

InOrder(table, q, i, j) ==
    IF q.descending THEN SortKey(table, i, q) >= SortKey(table, j, q)
                    ELSE SortKey(table, i, q) <= SortKey(table, j, q)

\* ORDER BY one column: rows with equal keys come in any order, and in
\* another one the next time.
Orderings(table, q) ==
    {s \in SetToSeqs(Matching(table, q)) :
        \A m, n \in DOMAIN s : m < n => InOrder(table, q, s[m], s[n])}

\* Mutation: pages counted from zero.
PageFromZero(s, q) == LET first == q.page * q.page_size
                      IN SubSeq(s, first + 1, Min({first + q.page_size, Len(s)}))

\* OFFSET (page - 1) * page_size LIMIT page_size
Page(s, q) == LET first == (q.page - 1) * q.page_size
              IN SubSeq(s, first + 1, Min({first + q.page_size, Len(s)}))

PageCount(total, size) == (total + size - 1) \div size
-----------------------------------------------------------------------------
\* No two of the selected rows share the key they are sorted by.
NoTies(table, q) == \A i, j \in Matching(table, q) :
                        SortKey(table, i, q) = SortKey(table, j, q) => i = j

\* A client that reads page after page: whichever orders the database picks
\* for its queries, the pages up to the count it is told hold every selected
\* product, none twice, and the page after them is empty.
WalkIsComplete(table, q) ==
    LET selected == Matching(table, q)
        count == PageCount(Cardinality(selected), q.page_size)
        page(s, k) == Page(s, [q EXCEPT !.page = k])
    IN  \A walk \in [1..count + 1 -> Orderings(table, q)] :
            LET seen == FlattenSeq([k \in 1..count |-> page(walk[k], k)])
            IN  /\ Range(seen) = selected /\ IsInjective(seen)
                /\ page(walk[count + 1], count + 1) = <<>>
=============================================================================
