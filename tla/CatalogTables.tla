--------------------------- MODULE CatalogTables ---------------------------
(* What the products and line_items tables promise, whichever requests run  *)
(* against them: names are unique, ids are not given twice, and a product   *)
(* with line items is not removed.                                          *)
EXTENDS Integers, Sequences

CONSTANTS
    SeedProducts,   \* the rows that are there from the start, by id
    Rows,           \* what a row may hold: a name, a price and a stock
    Baskets         \* what an order may hold: quantities, by product id

VARIABLES
    products,       \* the rows, by id
    lastId,         \* where the sequence of ids stands
    orders          \* the baskets of the orders, oldest first

tables == <<products, lastId, orders>>

Put(id, row) == [i \in DOMAIN products \cup {id} |->
                    IF i = id THEN row ELSE products[i]]

NameIsFree(name, id) == \A i \in DOMAIN products \ {id} : products[i].name # name

Referenced(id) == \E n \in DOMAIN orders : id \in DOMAIN orders[n]

TablesInit == /\ products = SeedProducts
              /\ lastId \in Nat /\ \A i \in DOMAIN SeedProducts : i <= lastId
              /\ orders = <<>>

\* A refused insertion uses an id up.
Skip == lastId' = lastId + 1 /\ UNCHANGED <<products, orders>>

Insert == \E row \in Rows :
    /\ NameIsFree(row.name, lastId + 1)
    /\ lastId' = lastId + 1
    /\ products' = Put(lastId + 1, row)
    /\ UNCHANGED orders

Revise == \E id \in DOMAIN products, row \in Rows :
    /\ NameIsFree(row.name, id)
    /\ products' = Put(id, row)
    /\ UNCHANGED <<lastId, orders>>

Remove == \E id \in DOMAIN products :
    /\ ~ Referenced(id)
    /\ products' = [i \in DOMAIN products \ {id} |-> products[i]]
    /\ UNCHANGED <<lastId, orders>>

Place == \E basket \in Baskets :
    /\ DOMAIN basket \subseteq DOMAIN products
    /\ orders' = Append(orders, basket)
    /\ UNCHANGED <<products, lastId>>

TablesNext == Skip \/ Insert \/ Revise \/ Remove \/ Place

TablesSpec == TablesInit /\ [][TablesNext]_tables
=============================================================================
