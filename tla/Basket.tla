------------------------------- MODULE Basket -------------------------------
(***************************************************************************)
(* The basket of one phone: the Realm table of OrderProduct objects that   *)
(* the catalogue and the favourites fill and the Orders screen shows,      *)
(* prices, orders and empties.                                             *)
(*                                                                         *)
(* Only pure operators live here; Checkout is the state machine.           *)
(***************************************************************************)
EXTENDS RealmTable, SequencesExt

CONSTANTS
    Item,       \* OrderProduct objects, one for each tap on "add to basket"
    Price       \* the price stored in each of them

ASSUME PriceAssumption == Price \in [Item -> Nat]

(***************************************************************************)
(* The loop "price = 0; for product in products { price += product.price }"*)
(* of OrdersViewController.updatePrice and FormOrderService.               *)
(***************************************************************************)
Total(t) ==
    LET sum[n \in 0 .. Len(t)] ==
            IF n = 0 THEN 0 ELSE sum[n - 1] + Price[t[n]]
    IN  sum[Len(t)]

(***************************************************************************)
(* total - Int(Double(total * percent / 100)): the discount is an Int      *)
(* division before it is a Double, so it is rounded down.                  *)
(***************************************************************************)
Discounted(total, percent) == total - (total * percent) \div 100
=============================================================================
