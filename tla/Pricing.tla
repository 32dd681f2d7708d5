------------------------------ MODULE Pricing ------------------------------
(* The pricing strategies.  A price is a number of cents, a rate a number   *)
(* of percent and a total a number of hundredths of a cent: the Decimal     *)
(* totals of the code are exact, and nothing rounds them.                   *)
EXTENDS Integers, FiniteSetsExt

\* A line item without a product raises IncompleteOrderPricingError; a price
\* cannot be missing, the column is NOT NULL.
Priceable(lines, products) == DOMAIN lines \subseteq DOMAIN products

\* Mutation: one of each product, whatever the quantity.
SubtotalOfOnes(lines, price) ==
    MapThenSumSet(LAMBDA p : price[p], DOMAIN lines)

\* _subtotal: lines gives the quantity, price the cents of each product.
Subtotal(lines, price) ==
    MapThenSumSet(LAMBDA p : price[p] * lines[p], DOMAIN lines)

\* What the constructors of the strategies accept.
ValidTax(rate) == rate >= 0
ValidDiscount(threshold, rate) == threshold >= 0 /\ rate >= 0 /\ rate <= 100

Standard(subtotal) == 100 * subtotal

Taxed(subtotal, rate) == Standard(subtotal) + subtotal * rate

Discounted(subtotal, threshold, rate) ==
    IF subtotal > threshold THEN Standard(subtotal) - subtotal * rate
                            ELSE Standard(subtotal)
=============================================================================
