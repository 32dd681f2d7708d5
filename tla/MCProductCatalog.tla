-------------------------- MODULE MCProductCatalog -------------------------
(* Instances of ProductCatalog for TLC. *)
EXTENDS ProductCatalog

CONSTANTS w1, w2

Row(name, price, stock) == [name |-> name, price |-> price, stock |-> stock]

MCWorkers == {w1, w2}
TwoProducts == 1 :> Row(1, 2, 1) @@ 2 :> Row(2, 3, 0)
OneProduct == 1 :> Row(1, 2, 0)

\* 24 thousandths are 2 cents, 25 are 3, 96 are more than the column holds.
MCBodies == {Row(2, 24, 1), Row(3, 25, 1), Row(3, 96, 1), Row(1, 24, 0)}
\* 4 thousandths are nothing.
SmallBodies == {Row(2, 4, 0), Row(2, 5, 0)}

MCBaskets == {1 :> 2, 1 :> 1 @@ 2 :> 3}

Query(sort_by, descending, page, min_price, max_price, in_stock, search) ==
    [sort_by |-> sort_by, descending |-> descending, page |-> page, page_size |-> 2,
     min_price |-> min_price, max_price |-> max_price, in_stock |-> in_stock,
     search |-> search]

MCQueries == {Query("name", FALSE, 2, None, None, None, None),
              Query("price", TRUE, 1, 2, None, TRUE, {1, 3}),
              Query("created_at", TRUE, 1, None, None, FALSE, None),
              Query("id", FALSE, 1, 3, 2, None, None)}
SmallQueries == {Query("stock", FALSE, 1, None, 3, FALSE, None)}
=============================================================================
