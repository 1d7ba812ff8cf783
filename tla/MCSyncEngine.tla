---------------------------- MODULE MCSyncEngine ----------------------------
(***************************************************************************)
(* Small instances of SyncEngine for TLC.                                  *)
(***************************************************************************)
EXTENDS SyncProperties, TLC

CONSTANTS r1, r2, r3, r4, master, vouchers, memo, gone, s1, s2, svc, cli

\* One mapped entity.
OneEntityOf == (r1 :> master @@ r2 :> master)
LoneEntityOf == (r1 :> master)
OneOrder == <<master>>

\* A master, a voucher entity that depends on it, an entity without a mapping.
ThreeEntityOf == (r1 :> master @@ r2 :> vouchers @@ r3 :> memo)
ThreeOrder == <<master, vouchers, memo>>

\* Two vouchers of one entity.
TwoVouchersOf == (r1 :> vouchers @@ r2 :> vouchers)
VoucherOrder == <<vouchers>>

\* r3 is of an entity the registry no longer knows.
LegacyEntityOf == (r1 :> master @@ r2 :> master @@ r3 :> gone @@ r4 :> master)

\* Rows an earlier release left.
NoLegacy == <<>>
LegacyRows == <<r1, r2, r4, r3>>
UnknownRowFirst == <<r3, r1>>

CycleOnly == (svc :> {"cycle"})
CycleAndFull == (svc :> {"cycle", "full"})
AllButRange == (svc :> JobKind \ {"range"})
CycleAndRange == (svc :> {"cycle"} @@ cli :> {"range"})
Everything == (svc :> JobKind)
CycleAndRetry == (svc :> {"cycle"} @@ cli :> {"retry"})

=============================================================================
