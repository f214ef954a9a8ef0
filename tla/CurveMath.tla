------------------------------ MODULE CurveMath ------------------------------
(***************************************************************************)
(* The arithmetic of the bonding curve: BondingCurveAccount (src/pumpfun/  *)
(* bonding_curve.rs).  A curve is its two virtual reserves, vs lamports    *)
(* and vt tokens.  Products are taken in u128 and do not wrap; what does   *)
(* is left to the modules that use these operators.                        *)
(***************************************************************************)
EXTENDS Integers

\* Reserves of tokens after a lamports are paid in: the product of the
\* reserves never falls.
TokensLeft(vs, vt, a) == (vs * vt) \div (vs + a) + 1

\* get_buy_price in whole tokens.  The minimum with the virtual reserves it
\* takes at the end is always the first argument.
TokensOut(vs, vt, a) == IF a = 0 THEN 0 ELSE vt - TokensLeft(vs, vt, a)
=============================================================================
