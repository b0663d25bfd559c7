----------------------------- MODULE CoinPromise -----------------------------
(***************************************************************************)
(* What buying coins promises, whatever the delivery of provider events,   *)
(* the handlers and the other writers of the wallet do: the coins of a     *)
(* checkout count in one piece and at most once, a purchase that fails is  *)
(* withdrawn only while nothing was claimed of it, and a reversal takes    *)
(* back coins of that checkout which count and were not yet taken.  Coins  *)
(* of failed attempts may stray into the wallet or out of it; they do not  *)
(* count for the checkout and nothing is claimed of them.                  *)
(***************************************************************************)
EXTENDS Integers

CONSTANTS Checkout, Coins

VARIABLES
    granted,   \* coins of each checkout that entered the wallet
    strayed,   \* those of them that do not count for it
    taken      \* coins of each checkout a reversal has claimed back

Init ==
    /\ granted = [c \in Checkout |-> 0]
    /\ strayed = [c \in Checkout |-> 0]
    /\ taken   = [c \in Checkout |-> 0]

\* The coins of the checkout that count.
Kept(c) == granted[c] - strayed[c]

Grant(c) ==
    /\ Kept(c) = 0
    /\ granted' = [granted EXCEPT ![c] = @ + Coins[c]]
    /\ UNCHANGED <<strayed, taken>>

\* The purchase failed: its coins leave the wallet, or stray.
Withdraw(c) ==
    /\ Kept(c) = Coins[c] /\ taken[c] = 0
    /\ \/ /\ granted' = [granted EXCEPT ![c] = @ - Coins[c]]
          /\ UNCHANGED strayed
       \/ /\ strayed' = [strayed EXCEPT ![c] = @ + Coins[c]]
          /\ UNCHANGED granted
    /\ UNCHANGED taken

\* An attempt whose outcome was mistaken: coins of a failed one enter, or
\* those of one that succeeded leave.
Stray(c) ==
    /\ \E n \in {Coins[c], 0 - Coins[c]} :
         /\ granted' = [granted EXCEPT ![c] = @ + n]
         /\ strayed' = [strayed EXCEPT ![c] = @ + n]
    /\ UNCHANGED taken

Take(c) ==
    /\ \E n \in 1..(Kept(c) - taken[c]) :
         taken' = [taken EXCEPT ![c] = @ + n]
    /\ UNCHANGED <<granted, strayed>>

Next == \E c \in Checkout : Grant(c) \/ Withdraw(c) \/ Stray(c) \/ Take(c)

Spec == Init /\ [][Next]_<<granted, strayed, taken>>
=============================================================================
