------------------------ MODULE ZoroPoolAccountProofs ------------------------
(* Theorems about ZoroPoolAccount, for any faucets, users, amounts, arguments *)
(* and field modulus.                                                         *)
EXTENDS ZoroPoolAccount, FiniteSums

\* Reducing to the field never makes a number larger.
LEMMA ModIsSmaller ==
  ASSUME NEW n \in Nat, NEW p \in Nat \ {0}
  PROVE  n % p <= n
  OBVIOUS

\* Field operations yield field elements.
LEMMA FieldOperations ==
  ASSUME NEW a \in Felt, NEW b \in Felt
  PROVE  safe_add(a, b) \in Felt /\ safe_sub(a, b) \in Felt
  BY AccountAssumption DEF safe_add, safe_sub, Felt

\* An addition that safe_add lets through did not wrap.
LEMMA SafeAddIsAddition ==
  ASSUME NEW a \in Felt, NEW b \in Felt, safe_add_ok(a, b)
  PROVE  safe_add(a, b) = a + b
  BY AccountAssumption DEF safe_add, safe_add_ok, Felt

\* The arguments that a transaction can pass to a script: field elements.
AnyArgs == [total_liabilities : Felt, reserve : Felt, reserve_with_slippage : Felt]

\* A step of the account with any arguments, and any field element as an amount.  The
\* lemmas are about these steps, so that they hold of every operator (ZoroPool) too.
AnyNext ==
  \/ \E n \in NewNotes : CreateNote(n)
  \/ \E n \in notes : ReclaimPosition(n)
  \/ \E n \in notes, lp_amount \in Felt, s \in AnyArgs : ConsumeDeposit(n, lp_amount, s)
  \/ \E n \in notes, amount_out \in Felt, s \in AnyArgs : ConsumeWithdraw(n, amount_out, s)
  \/ \E n \in notes, amount_out \in Felt, s_in, s_out \in AnyArgs :
       ConsumeSwap(n, amount_out, s_in, s_out)
  \/ \E n \in notes, amount_out, sold, minimum \in Felt, s_in, s_out \in AnyArgs,
        sell, buy \in Faucets, serial \in Serials :
       ConsumePosition(n, amount_out, s_in, s_out, sell, sold, buy, minimum, serial)
  \/ \E f \in Faucets, s \in AnyArgs : SetPoolState(f, s)

\* What every step passes: amounts and arguments are naturals.
LEMMA ArgumentTypes ==
  Felt \subseteq Nat /\ Amounts \subseteq Felt /\ Amounts \subseteq Nat /\ AnyArgs \subseteq PoolBalances
  BY AccountAssumption DEF PoolBalances, Felt, AnyArgs

\* The steps with the arguments of a run are among them.
LEMMA StepIsAnyStep == [Next]_vars => [AnyNext]_vars
<1>1. Amounts \subseteq Felt /\ PoolArgs \subseteq AnyArgs
  BY AccountAssumption DEF Felt, AnyArgs
<1>2. QED
  BY <1>1 DEF Next, AnyNext

\* The notes that users make are notes.
LEMMA NewNotesAreNotes == NewNotes \subseteq Note
<1>1. SUFFICES ASSUME NEW n \in NewNotes PROVE n \in Note
  OBVIOUS
<1>2. QED
  BY ArgumentTypes DEF NewNotes, Note, Single

\* A freshly deployed account is well typed.
LEMMA TypeInit == Init => TypeOK
  BY AccountAssumption DEF Init, TypeOK, EmptyPool, PoolBalances, Felt

\* Every step keeps the types: subtractions are guarded, field operations reduced.
LEMMA TypeNext == TypeOK /\ [AnyNext]_vars => TypeOK'
<1> SUFFICES ASSUME TypeOK, [AnyNext]_vars PROVE TypeOK'
  OBVIOUS
<1> USE AccountAssumption, ArgumentTypes
<1>1. ASSUME NEW n \in NewNotes, CreateNote(n) PROVE TypeOK'
  BY <1>1, NewNotesAreNotes DEF TypeOK, CreateNote, Note
<1>2. ASSUME NEW n \in notes, ReclaimPosition(n) PROVE TypeOK'
  BY <1>2 DEF TypeOK, ReclaimPosition, Note
<1>3. ASSUME NEW n \in notes, NEW lp_amount \in Felt, NEW s \in AnyArgs,
             ConsumeDeposit(n, lp_amount, s)
      PROVE  TypeOK'
  <2>1. PICK f \in Attached(n) :
          /\ vault' = add_asset(f, n.assets[f], vault)
          /\ pool_state' = [pool_state EXCEPT ![f] = s]
          /\ deposit(n.beneficiary, f, lp_amount)
    BY <1>3 DEF ConsumeDeposit
  <2>2. notes' = notes \ {n} /\ wallet' = wallet
    BY <1>3 DEF ConsumeDeposit
  <2>3. n.beneficiary \in Users /\ f \in Faucets /\ n.assets[f] \in Nat
    BY DEF TypeOK, Note, Attached
  <2>4. user_deposits' \in [Users -> [Faucets -> Felt]] /\ lp_total_supply' \in [Faucets -> Felt]
    <3>1. /\ safe_add(user_deposits[n.beneficiary][f], lp_amount) \in Felt
          /\ safe_add(lp_total_supply[f], lp_amount) \in Felt
      BY <2>3, FieldOperations DEF TypeOK
    <3>2. QED
      BY <2>1, <2>3, <3>1 DEF TypeOK, deposit
  <2>5. vault' \in [Faucets -> Nat]
    BY <2>1, <2>3 DEF TypeOK, add_asset
  <2>6. pool_state' \in [Faucets -> PoolBalances]
    BY <2>1, <2>3 DEF TypeOK
  <2>7. QED
    BY <2>2, <2>4, <2>5, <2>6 DEF TypeOK
<1>4. ASSUME NEW n \in notes, NEW amount_out \in Felt, NEW s \in AnyArgs,
             ConsumeWithdraw(n, amount_out, s)
      PROVE  TypeOK'
  <2>1. n.beneficiary \in Users /\ n.expected \in Faucets
    BY DEF TypeOK, Note
  <2>2. user_deposits' \in [Users -> [Faucets -> Felt]] /\ lp_total_supply' \in [Faucets -> Felt]
    <3>1. \A a \in Felt : safe_sub(a, n.amount_input) \in Felt
      BY DEF TypeOK, Note, safe_sub, Felt
    <3>2. QED
      BY <1>4, <2>1, <3>1 DEF TypeOK, ConsumeWithdraw, withdraw
  <2>3. vault' \in [Faucets -> Nat]
    <3>1. vault[n.expected] - amount_out \in Nat
      BY <1>4, <2>1 DEF TypeOK, ConsumeWithdraw, remove_asset_from_pool_ok, remove_asset_ok
    <3>2. QED
      BY <1>4, <2>1, <3>1 DEF TypeOK, ConsumeWithdraw, remove_asset
  <2>4. pool_state' \in [Faucets -> PoolBalances] /\ notes' \subseteq Note
    BY <1>4, <2>1 DEF TypeOK, ConsumeWithdraw
  <2>5. wallet' \in [Users -> [Faucets -> Nat]]
    BY <1>4, <2>1 DEF TypeOK, ConsumeWithdraw, Credit
  <2>6. QED
    BY <2>2, <2>3, <2>4, <2>5 DEF TypeOK
<1>5. ASSUME NEW f_in \in Faucets, NEW amount_in \in Nat, NEW s_in \in AnyArgs,
             NEW f_out \in Faucets, NEW amount_out \in Nat, NEW s_out \in AnyArgs,
             SwapOnPool(f_in, amount_in, s_in, f_out, amount_out, s_out)
      PROVE  /\ vault' \in [Faucets -> Nat] /\ pool_state' \in [Faucets -> PoolBalances]
             /\ user_deposits' = user_deposits /\ lp_total_supply' = lp_total_supply
  <2> DEFINE v == add_asset(f_in, amount_in, vault)
  <2>1. v \in [Faucets -> Nat]
    BY DEF TypeOK, add_asset
  <2>2. v[f_out] - amount_out \in Nat
    BY <1>5, <2>1 DEF SwapOnPool, remove_asset_from_pool_ok, remove_asset_ok
  <2>3. vault' = [v EXCEPT ![f_out] = @ - amount_out]
    BY <1>5 DEF SwapOnPool, remove_asset
  <2> HIDE DEF v
  <2>4. vault' \in [Faucets -> Nat]
    BY <2>1, <2>2, <2>3
  <2>5. QED
    BY <1>5, <2>4 DEF TypeOK, SwapOnPool
<1>6. ASSUME NEW n \in notes, NEW amount_out \in Felt, NEW s_in \in AnyArgs, NEW s_out \in AnyArgs,
             ConsumeSwap(n, amount_out, s_in, s_out)
      PROVE  TypeOK'
  <2>1. PICK f \in Attached(n) : SwapOnPool(f, n.assets[f], s_in, n.expected, amount_out, s_out)
    BY <1>6 DEF ConsumeSwap
  <2>2. f \in Faucets /\ n.assets[f] \in Nat /\ n.expected \in Faucets /\ n.beneficiary \in Users
    BY DEF TypeOK, Note, Attached
  <2>3. wallet' = Credit(wallet, n.beneficiary, n.expected, amount_out) /\ notes' = notes \ {n}
    BY <1>6 DEF ConsumeSwap
  <2>4. QED
    BY <2>1, <2>2, <2>3, <1>5 DEF TypeOK, Credit
<1>7. ASSUME NEW n \in notes, NEW amount_out \in Felt, NEW sold \in Felt, NEW minimum \in Felt,
             NEW s_in \in AnyArgs, NEW s_out \in AnyArgs, NEW sell \in Faucets, NEW buy \in Faucets,
             NEW serial \in Serials,
             ConsumePosition(n, amount_out, s_in, s_out, sell, sold, buy, minimum, serial)
      PROVE  TypeOK'
  <2>0. n \in Note
    BY DEF TypeOK
  <2>1. CASE MinimumNotMet(amount_out, minimum)
    <3>1. RecreatedNote(n, serial, n.assets) \in Note
      BY <2>0 DEF Note, RecreatedNote
    <3>2. QED
      BY <1>7, <2>1, <3>1 DEF TypeOK, ConsumePosition
  <2>2. CASE ~ MinimumNotMet(amount_out, minimum)
    <3>1. RecreatedAssets(n.assets, sell, sold, buy, amount_out) \in [Faucets -> Nat]
      BY <1>7, <2>0, <2>2 DEF ConsumePosition, RecreatedAssets, Note
    <3>2. RecreatedNote(n, serial, RecreatedAssets(n.assets, sell, sold, buy, amount_out)) \in Note
      BY <2>0, <3>1 DEF Note, RecreatedNote
    <3>3. SwapOnPool(sell, sold, s_in, buy, amount_out, s_out)
      BY <1>7, <2>2 DEF ConsumePosition
    <3>4. notes' \subseteq Note /\ wallet' = wallet
      BY <1>7, <2>2, <3>2 DEF TypeOK, ConsumePosition
    <3>5. QED
      BY <3>3, <3>4, <1>5 DEF TypeOK
  <2>3. QED
    BY <2>1, <2>2
<1>8. ASSUME NEW f \in Faucets, NEW s \in AnyArgs, SetPoolState(f, s) PROVE TypeOK'
  BY <1>8 DEF TypeOK, SetPoolState
<1>9. CASE UNCHANGED vars
  BY <1>9 DEF TypeOK, vars
<1>10. QED
  BY <1>1, <1>2, <1>3, <1>4, <1>6, <1>7, <1>8, <1>9 DEF AnyNext

\* Every state of the account is of its type: no asset balance, note or wallet
\* becomes negative and every stored LP amount is a field element.
THEOREM AccountTypeOK == Spec => []TypeOK
  BY TypeInit, TypeNext, StepIsAnyStep, PTL DEF Spec

-----------------------------------------------------------------------------
(* Solvency *)

\* What set_pool_state asserts of a state, without the field arithmetic.
LEMMA PoolStateCovered ==
  ASSUME NEW f \in Faucets, NEW s \in PoolBalances, NEW v \in [Faucets -> Nat],
         set_pool_state_ok(f, s, v)
  PROVE  /\ s.reserve <= s.reserve_with_slippage
         /\ s.reserve_with_slippage <= 2 * s.total_liabilities
         /\ s.reserve_with_slippage <= v[f]
<1>1. s.reserve \in Nat /\ s.reserve_with_slippage \in Nat /\ s.total_liabilities \in Nat
  BY DEF PoolBalances
<1>2. (2 * s.total_liabilities) % P <= 2 * s.total_liabilities
  BY <1>1, ModIsSmaller, AccountAssumption
<1>3. QED
  BY <1>1, <1>2, AccountAssumption DEF set_pool_state_ok

\* A freshly deployed account is solvent.
LEMMA SolventInit == Init => Solvent
  BY DEF Init, Solvent, EmptyPool

\* A step that leaves the vault and the pool states alone.
LEMMA SolventWhenPoolUntouched ==
  ASSUME Solvent, UNCHANGED <<vault, pool_state>>
  PROVE  Solvent'
  BY DEF Solvent

\* A step that writes a validated state for f and leaves the other pools and
\* their balances alone.
LEMMA SolventAfterSetPoolState ==
  ASSUME TypeOK, Solvent, NEW f \in Faucets, NEW s \in PoolBalances,
         vault' \in [Faucets -> Nat],
         \A g \in Faucets \ {f} : vault'[g] = vault[g],
         pool_state' = [pool_state EXCEPT ![f] = s],
         set_pool_state_ok(f, s, vault')
  PROVE  Solvent'
<1>1. SUFFICES ASSUME NEW g \in Faucets
               PROVE  /\ pool_state'[g].reserve <= pool_state'[g].reserve_with_slippage
                      /\ pool_state'[g].reserve_with_slippage <= 2 * pool_state'[g].total_liabilities
                      /\ pool_state'[g].reserve_with_slippage <= vault'[g]
  BY DEF Solvent
<1>2. CASE g = f
  <2>1. pool_state'[g] = s
    BY <1>2 DEF TypeOK
  <2>2. QED
    BY <1>2, <2>1, PoolStateCovered
<1>3. CASE g # f
  BY <1>3 DEF TypeOK, Solvent
<1>4. QED
  BY <1>2, <1>3

\* The two halves of a swap, between one pool and itself or another.
LEMMA SolventAfterSwap ==
  ASSUME TypeOK, Solvent, TypeOK',
         NEW f_in \in Faucets, NEW amount_in \in Nat, NEW s_in \in AnyArgs,
         NEW f_out \in Faucets, NEW amount_out \in Nat, NEW s_out \in AnyArgs,
         SwapOnPool(f_in, amount_in, s_in, f_out, amount_out, s_out)
  PROVE  Solvent'
<1> DEFINE v == add_asset(f_in, amount_in, vault)
<1>1. v \in [Faucets -> Nat] /\ \A g \in Faucets : g # f_in => v[g] = vault[g]
  BY DEF TypeOK, add_asset
<1>2. /\ vault' = remove_asset(f_out, amount_out, v)
      /\ pool_state' = [pool_state EXCEPT ![f_in] = s_in, ![f_out] = s_out]
      /\ set_pool_state_ok(f_in, s_in, v)
      /\ set_pool_state_ok(f_out, s_out, vault')
  BY DEF SwapOnPool, receive_asset_ok, remove_asset_from_pool_ok
<1>3. \A g \in Faucets : g # f_out => vault'[g] = v[g]
  BY <1>1, <1>2 DEF remove_asset
<1>4. s_in \in PoolBalances /\ s_out \in PoolBalances /\ vault' \in [Faucets -> Nat]
  BY ArgumentTypes DEF TypeOK
<1> HIDE DEF v
<1>5. SUFFICES ASSUME NEW g \in Faucets
               PROVE  /\ pool_state'[g].reserve <= pool_state'[g].reserve_with_slippage
                      /\ pool_state'[g].reserve_with_slippage <= 2 * pool_state'[g].total_liabilities
                      /\ pool_state'[g].reserve_with_slippage <= vault'[g]
  BY DEF Solvent
<1>6. CASE g = f_out
  <2>1. pool_state'[g] = s_out
    BY <1>2, <1>6 DEF TypeOK
  <2>2. QED
    BY <1>2, <1>4, <1>6, <2>1, PoolStateCovered
<1>7. CASE g # f_out /\ g = f_in
  <2>1. pool_state'[g] = s_in /\ vault'[g] = v[g]
    BY <1>2, <1>3, <1>7 DEF TypeOK
  <2>2. QED
    BY <1>1, <1>2, <1>4, <1>7, <2>1, PoolStateCovered
<1>8. CASE g # f_out /\ g # f_in
  <2>1. pool_state'[g] = pool_state[g] /\ vault'[g] = vault[g]
    BY <1>1, <1>2, <1>3, <1>8 DEF TypeOK
  <2>2. QED
    BY <2>1 DEF Solvent
<1>9. QED
  BY <1>6, <1>7, <1>8

\* Every step keeps the account solvent.
LEMMA SolventNext == TypeOK /\ TypeOK' /\ Solvent /\ [AnyNext]_vars => Solvent'
<1> SUFFICES ASSUME TypeOK, TypeOK', Solvent, [AnyNext]_vars PROVE Solvent'
  OBVIOUS
<1> USE ArgumentTypes
<1>1. ASSUME NEW n \in NewNotes, CreateNote(n) PROVE Solvent'
  BY <1>1, SolventWhenPoolUntouched DEF CreateNote
<1>2. ASSUME NEW n \in notes, ReclaimPosition(n) PROVE Solvent'
  BY <1>2, SolventWhenPoolUntouched DEF ReclaimPosition
<1>3. ASSUME NEW n \in notes, NEW lp_amount \in Felt, NEW s \in AnyArgs,
             ConsumeDeposit(n, lp_amount, s)
      PROVE  Solvent'
  <2>1. PICK f \in Attached(n) :
          /\ vault' = add_asset(f, n.assets[f], vault)
          /\ pool_state' = [pool_state EXCEPT ![f] = s]
          /\ receive_asset_ok(f, n.assets[f], s, vault)
    BY <1>3 DEF ConsumeDeposit
  <2>2. f \in Faucets /\ s \in PoolBalances /\ vault' \in [Faucets -> Nat]
    BY DEF Attached, TypeOK
  <2>3. \A g \in Faucets \ {f} : vault'[g] = vault[g]
    BY <2>1 DEF TypeOK, add_asset
  <2>4. set_pool_state_ok(f, s, vault')
    BY <2>1 DEF receive_asset_ok
  <2>5. QED
    BY <2>1, <2>2, <2>3, <2>4, SolventAfterSetPoolState
<1>4. ASSUME NEW n \in notes, NEW amount_out \in Felt, NEW s \in AnyArgs,
             ConsumeWithdraw(n, amount_out, s)
      PROVE  Solvent'
  <2>1. n.expected \in Faucets /\ s \in PoolBalances /\ vault' \in [Faucets -> Nat]
    BY DEF TypeOK, Note
  <2>2. \A g \in Faucets \ {n.expected} : vault'[g] = vault[g]
    BY <1>4 DEF ConsumeWithdraw, TypeOK, remove_asset
  <2>3. set_pool_state_ok(n.expected, s, vault')
    BY <1>4 DEF ConsumeWithdraw, remove_asset_from_pool_ok
  <2>4. pool_state' = [pool_state EXCEPT ![n.expected] = s]
    BY <1>4 DEF ConsumeWithdraw
  <2>5. QED
    BY <2>1, <2>2, <2>3, <2>4, SolventAfterSetPoolState
<1>5. ASSUME NEW n \in notes, NEW amount_out \in Felt, NEW s_in \in AnyArgs, NEW s_out \in AnyArgs,
             ConsumeSwap(n, amount_out, s_in, s_out)
      PROVE  Solvent'
  <2>1. PICK f \in Attached(n) : SwapOnPool(f, n.assets[f], s_in, n.expected, amount_out, s_out)
    BY <1>5 DEF ConsumeSwap
  <2>2. f \in Faucets /\ n.assets[f] \in Nat /\ n.expected \in Faucets
    BY DEF TypeOK, Note, Attached
  <2>3. QED
    BY <2>1, <2>2, SolventAfterSwap
<1>6. ASSUME NEW n \in notes, NEW amount_out \in Felt, NEW sold \in Felt, NEW minimum \in Felt,
             NEW s_in \in AnyArgs, NEW s_out \in AnyArgs, NEW sell \in Faucets, NEW buy \in Faucets,
             NEW serial \in Serials,
             ConsumePosition(n, amount_out, s_in, s_out, sell, sold, buy, minimum, serial)
      PROVE  Solvent'
  <2>1. CASE MinimumNotMet(amount_out, minimum)
    BY <1>6, <2>1, SolventWhenPoolUntouched DEF ConsumePosition
  <2>2. CASE ~ MinimumNotMet(amount_out, minimum)
    <3>1. SwapOnPool(sell, sold, s_in, buy, amount_out, s_out)
      BY <1>6, <2>2 DEF ConsumePosition
    <3>2. QED
      BY <3>1, SolventAfterSwap
  <2>3. QED
    BY <2>1, <2>2
<1>7. ASSUME NEW f \in Faucets, NEW s \in AnyArgs, SetPoolState(f, s) PROVE Solvent'
  <2>1. /\ s \in PoolBalances /\ vault' = vault /\ vault' \in [Faucets -> Nat]
        /\ set_pool_state_ok(f, s, vault')
        /\ pool_state' = [pool_state EXCEPT ![f] = s]
    BY <1>7 DEF SetPoolState, TypeOK
  <2>2. QED
    BY <2>1, SolventAfterSetPoolState
<1>8. CASE UNCHANGED vars
  BY <1>8, SolventWhenPoolUntouched DEF vars
<1>9. QED
  BY <1>1, <1>2, <1>3, <1>4, <1>5, <1>6, <1>7, <1>8 DEF AnyNext

\* The pool states the account stores are always covered by what the vault holds
\* and stay within the coverage ratio, whatever arguments the operator passes to
\* the note scripts and to set_pool_state.
THEOREM AccountSolvent == Spec => []Solvent
<1>1. Init => TypeOK /\ Solvent
  BY TypeInit, SolventInit
<1>2. TypeOK /\ Solvent /\ [AnyNext]_vars => (TypeOK /\ Solvent)'
  BY TypeNext, SolventNext
<1>3. QED
  BY <1>1, <1>2, StepIsAnyStep, PTL DEF Spec

-----------------------------------------------------------------------------
(* The minimum of a note *)

\* A note that store_asset_to_memory accepts carries nothing but that asset.
LEMMA OnlyAsset ==
  ASSUME TypeOK, NEW n \in notes, OneAsset(n), NEW f \in Attached(n)
  PROVE  \A g \in Faucets : g # f => n.assets[g] = 0
<1>1. Attached(n) = {f}
  <2>1. IsFiniteSet(Attached(n))
    BY FS_Subset, AccountAssumption DEF Attached
  <2>2. QED
    BY <2>1, FS_Singleton DEF OneAsset
<1>2. QED
  BY <1>1 DEF Attached, TypeOK, Note

\* A credit of at least the minimum raises a balance by at least the minimum.
LEMMA CreditIsEnough ==
  ASSUME NEW before \in Nat, NEW amount \in Nat, NEW minimum \in Nat, NEW after,
         after = before + amount, ~ MinimumNotMet(amount, minimum)
  PROVE  after - before >= minimum
  BY DEF MinimumNotMet

\* Every step honours the minimum of the note it consumes.
LEMMA MinimumNext == TypeOK /\ [AnyNext]_vars => [MinimumKept]_vars
<1> SUFFICES ASSUME TypeOK, AnyNext PROVE MinimumKept
  OBVIOUS
<1> USE ArgumentTypes
\* Only the consumed note leaves the set of notes.
<1>1. ASSUME NEW n \in notes, notes \ notes' \subseteq {n}, n.kind \in {"DEPOSIT", "ZOROSWAP"} => GotMinimum(n)
      PROVE  MinimumKept
  BY <1>1 DEF MinimumKept
<1>2. ASSUME NEW n \in NewNotes, CreateNote(n) PROVE MinimumKept
  BY <1>2 DEF CreateNote, MinimumKept
<1>3. ASSUME NEW n \in notes, ReclaimPosition(n) PROVE MinimumKept
  BY <1>1, <1>3 DEF ReclaimPosition
<1>4. ASSUME NEW n \in notes, NEW lp_amount \in Felt, NEW s \in AnyArgs,
             ConsumeDeposit(n, lp_amount, s)
      PROVE  MinimumKept
  <2>1. notes' = notes \ {n} /\ OneAsset(n) /\ n.kind = "DEPOSIT"
    BY <1>4 DEF ConsumeDeposit
  <2>2. ~ MinimumNotMet(lp_amount, n.amount_input)
    BY <1>4 DEF ConsumeDeposit
  <2>3. PICK f \in Attached(n) :
          deposit_ok(n.beneficiary, f, lp_amount) /\ deposit(n.beneficiary, f, lp_amount)
    BY <1>4 DEF ConsumeDeposit
  <2>4. n.beneficiary \in Users /\ f \in Faucets /\ n.amount_input \in Nat
    BY DEF TypeOK, Note, Attached
  <2>5. user_deposits[n.beneficiary][f] \in Felt
    BY <2>4 DEF TypeOK
  <2>6. user_deposits'[n.beneficiary][f] = user_deposits[n.beneficiary][f] + lp_amount
    <3>1. user_deposits'[n.beneficiary][f] = safe_add(user_deposits[n.beneficiary][f], lp_amount)
      BY <2>3, <2>4 DEF deposit, TypeOK
    <3>2. QED
      BY <2>3, <2>5, <3>1, SafeAddIsAddition DEF deposit_ok
  <2>7. GotMinimum(n)
    <3>1. user_deposits'[n.beneficiary][f] - user_deposits[n.beneficiary][f] >= n.amount_input
      BY <2>2, <2>4, <2>5, <2>6, CreditIsEnough
    <3>2. QED
      BY <2>1, <3>1 DEF GotMinimum
  <2>8. QED
    BY <1>1, <2>1, <2>7
<1>5. ASSUME NEW n \in notes, NEW amount_out \in Felt, NEW s \in AnyArgs,
             ConsumeWithdraw(n, amount_out, s)
      PROVE  MinimumKept
  BY <1>1, <1>5 DEF ConsumeWithdraw
<1>6. ASSUME NEW n \in notes, NEW amount_out \in Felt, NEW s_in \in AnyArgs, NEW s_out \in AnyArgs,
             ConsumeSwap(n, amount_out, s_in, s_out)
      PROVE  MinimumKept
  <2>1. notes' = notes \ {n} /\ OneAsset(n) /\ n.kind = "ZOROSWAP"
    BY <1>6 DEF ConsumeSwap
  <2>2. /\ ~ MinimumNotMet(amount_out, n.min_amount_out)
        /\ wallet' = Credit(wallet, n.beneficiary, n.expected, amount_out)
    BY <1>6 DEF ConsumeSwap
  <2>3. n.beneficiary \in Users /\ n.expected \in Faucets /\ n.min_amount_out \in Nat
    BY DEF TypeOK, Note
  <2>4. /\ wallet[n.beneficiary][n.expected] \in Nat
        /\ wallet'[n.beneficiary][n.expected] = wallet[n.beneficiary][n.expected] + amount_out
    BY <2>2, <2>3 DEF Credit, TypeOK
  <2>5. wallet'[n.beneficiary][n.expected] - wallet[n.beneficiary][n.expected] >= n.min_amount_out
    BY <2>2, <2>3, <2>4, CreditIsEnough
  <2>6. GotMinimum(n)
    BY <2>1, <2>5 DEF GotMinimum
  <2>7. QED
    BY <1>1, <2>1, <2>6
<1>7. ASSUME NEW n \in notes, NEW amount_out \in Felt, NEW sold \in Felt, NEW minimum \in Felt,
             NEW s_in \in AnyArgs, NEW s_out \in AnyArgs, NEW sell \in Faucets, NEW buy \in Faucets,
             NEW serial \in Serials,
             ConsumePosition(n, amount_out, s_in, s_out, sell, sold, buy, minimum, serial)
      PROVE  MinimumKept
  <2>1. n.kind = "POSITION" /\ notes \ notes' \subseteq {n}
    BY <1>7 DEF ConsumePosition
  <2>2. QED
    BY <1>1, <2>1
<1>8. ASSUME NEW f \in Faucets, NEW s \in AnyArgs, SetPoolState(f, s) PROVE MinimumKept
  BY <1>8 DEF SetPoolState, MinimumKept
<1>9. QED
  BY <1>2, <1>3, <1>4, <1>5, <1>6, <1>7, <1>8 DEF AnyNext

\* A DEPOSIT or ZOROSWAP note is consumed only with its minimum met, for every field
\* modulus and whatever the operator passes: a credit of LP shares that wraps around the
\* field is refused, not counted, and a note whose minimum is not met stays, since its
\* bounce aborts the transaction.
THEOREM AccountHonoursMinimum == Spec => MinimumHonoured
  BY AccountTypeOK, MinimumNext, StepIsAnyStep, PTL DEF Spec, MinimumHonoured

-----------------------------------------------------------------------------
(* The LP supply *)

\* A subtraction that leaves no more than there was did not wrap.
LEMMA SafeSubIsSubtraction ==
  ASSUME NEW a \in Felt, NEW b \in Felt, safe_sub_ok(a, b)
  PROVE  safe_sub(a, b) = a - b
  BY AccountAssumption DEF safe_sub, safe_sub_ok, Felt

\* Field elements are naturals.
LEMMA FeltIsNat == \A a \in Felt : a \in Nat /\ a \in Int
  BY AccountAssumption DEF Felt

\* Two sums that differ in one value differ as that value does.
LEMMA SumsDiffer ==
  ASSUME NEW x \in Nat, NEW y \in Nat, NEW a \in Nat, NEW b \in Nat, NEW d \in Int,
         y + b = x + a, a = b + d
  PROVE  y = x + d
  OBVIOUS

\* The LP amount that a note names is a field element.
NoteInputs == \A n \in notes : n.amount_input \in Felt

SharesInv == TypeOK /\ NoteInputs /\ LpSupplyIsSumOfShares

\* A new account has no shares and no supply.
LEMMA SharesInit == Init => SharesInv
<1> SUFFICES ASSUME Init PROVE SharesInv
  OBVIOUS
<1>1. ASSUME NEW f \in Faucets PROVE lp_total_supply[f] = SumFunction([u \in Users |-> user_deposits[u][f]])
  <2>1. [u \in Users |-> user_deposits[u][f]] = [u \in Users |-> 0] /\ lp_total_supply[f] = 0
    BY DEF Init
  <2>2. SumFunction([u \in Users |-> 0]) = 0 * Cardinality(Users)
    BY AccountAssumption, SumOfConstant
  <2>3. Cardinality(Users) \in Nat
    BY AccountAssumption, FS_CardinalityType
  <2>4. QED
    BY <2>1, <2>2, <2>3
<1>2. QED
  BY <1>1, TypeInit DEF Init, SharesInv, NoteInputs, LpSupplyIsSumOfShares

\* No step writes a note with another LP amount.
LEMMA NoteInputsNext == TypeOK /\ NoteInputs /\ [AnyNext]_vars => NoteInputs'
<1> SUFFICES ASSUME TypeOK, NoteInputs, [AnyNext]_vars PROVE NoteInputs'
  OBVIOUS
<1>1. ASSUME NEW n \in NewNotes, CreateNote(n) PROVE NoteInputs'
  <2>1. 0 \in Felt /\ Amounts \subseteq Felt
    BY AccountAssumption DEF Felt
  <2>2. n.amount_input \in Felt
    BY <2>1 DEF NewNotes
  <2>3. QED
    BY <1>1, <2>2 DEF CreateNote, NoteInputs
<1>2. ASSUME NEW n \in notes, NEW amount_out, NEW sold, NEW minimum, NEW s_in, NEW s_out,
             NEW sell, NEW buy, NEW serial,
             ConsumePosition(n, amount_out, s_in, s_out, sell, sold, buy, minimum, serial)
      PROVE  NoteInputs'
  <2>1. \A assets : RecreatedNote(n, serial, assets).amount_input = n.amount_input
    BY DEF RecreatedNote, TypeOK, Note
  <2>2. QED
    BY <1>2, <2>1 DEF ConsumePosition, NoteInputs
<1>3. ASSUME notes' \subseteq notes PROVE NoteInputs'
  BY <1>3 DEF NoteInputs
<1>4. QED
  BY <1>1, <1>2, <1>3
  DEF ConsumeDeposit, ConsumeSwap, AnyNext, vars, ReclaimPosition, ConsumeWithdraw, SetPoolState

\* A user's shares and the supply that change by the same amount stay in step.
LEMMA SharesAfterChange ==
  ASSUME TypeOK, TypeOK', LpSupplyIsSumOfShares, NEW u \in Users, NEW f \in Faucets, NEW d \in Int,
         user_deposits' = [user_deposits EXCEPT ![u][f] = user_deposits[u][f] + d],
         lp_total_supply' = [lp_total_supply EXCEPT ![f] = lp_total_supply[f] + d]
  PROVE  LpSupplyIsSumOfShares'
<1>1. SUFFICES ASSUME NEW g \in Faucets
               PROVE  lp_total_supply'[g] = SumFunction([v \in Users |-> user_deposits'[v][g]])
  BY DEF LpSupplyIsSumOfShares
<1> DEFINE before == [v \in Users |-> user_deposits[v][g]]
           after == [v \in Users |-> user_deposits'[v][g]]
<1>2. before \in [Users -> Nat] /\ after \in [Users -> Nat] /\ IsFiniteSet(Users)
  <2>1. ASSUME NEW v \in Users PROVE user_deposits[v][g] \in Nat /\ user_deposits'[v][g] \in Nat
    BY FeltIsNat DEF TypeOK
  <2>2. QED
    BY <2>1, AccountAssumption
<1>3. lp_total_supply[g] = SumFunction(before)
  BY DEF LpSupplyIsSumOfShares
<1>4. CASE g # f
  <2>1. after = before
    BY <1>4 DEF TypeOK
  <2>2. lp_total_supply'[g] = lp_total_supply[g]
    BY <1>4 DEF TypeOK
  <2>3. QED
    BY <1>3, <2>1, <2>2
<1>5. CASE g = f
  <2>1. \A v \in Users \ {u} : after[v] = before[v]
    BY DEF TypeOK
  <2>2. after[u] = before[u] + d /\ before[u] \in Nat /\ after[u] \in Nat
    <3>1. user_deposits'[u][f] = user_deposits[u][f] + d
      BY DEF TypeOK
    <3>2. QED
      BY <1>2, <1>5, <3>1
  <2>3. lp_total_supply'[g] = lp_total_supply[g] + d
    BY <1>5 DEF TypeOK
  <2> HIDE DEF before, after
  <2>4. SumFunction(after) + before[u] = SumFunction(before) + after[u]
    BY <1>2, <2>1, SumWithOneChanged
  <2>5. SumFunction(before) \in Nat /\ SumFunction(after) \in Nat
    BY <1>2, SumIsNat
  <2>6. SumFunction(after) = SumFunction(before) + d
    BY <2>2, <2>4, <2>5, SumsDiffer
  <2>7. QED
    BY <1>3, <2>3, <2>6 DEF after
<1>6. QED
  BY <1>4, <1>5

\* Every step keeps the supply in step with the shares.
LEMMA SharesNext == SharesInv /\ [AnyNext]_vars => SharesInv'
<1> SUFFICES ASSUME SharesInv, [AnyNext]_vars PROVE SharesInv'
  OBVIOUS
<1>1. TypeOK /\ TypeOK' /\ NoteInputs /\ NoteInputs' /\ LpSupplyIsSumOfShares
  BY TypeNext, NoteInputsNext DEF SharesInv
<1>2. ASSUME UNCHANGED <<user_deposits, lp_total_supply>> PROVE LpSupplyIsSumOfShares'
  BY <1>1, <1>2 DEF LpSupplyIsSumOfShares
<1>3. ASSUME NEW n \in notes, NEW lp_amount \in Felt, NEW s \in AnyArgs, ConsumeDeposit(n, lp_amount, s)
      PROVE  LpSupplyIsSumOfShares'
  <2>1. PICK f \in Attached(n) : deposit_ok(n.beneficiary, f, lp_amount) /\ deposit(n.beneficiary, f, lp_amount)
    BY <1>3 DEF ConsumeDeposit
  <2>2. n.beneficiary \in Users /\ f \in Faucets /\ lp_amount \in Felt /\ lp_amount \in Int
    BY <1>1, ArgumentTypes DEF TypeOK, Note, Attached
  <2>3. /\ safe_add(user_deposits[n.beneficiary][f], lp_amount) = user_deposits[n.beneficiary][f] + lp_amount
        /\ safe_add(lp_total_supply[f], lp_amount) = lp_total_supply[f] + lp_amount
    <3>1. user_deposits[n.beneficiary][f] \in Felt /\ lp_total_supply[f] \in Felt
      BY <1>1, <2>2 DEF TypeOK
    <3>2. QED
      BY <2>1, <2>2, <3>1, SafeAddIsAddition DEF deposit_ok
  <2>4. /\ user_deposits' = [user_deposits EXCEPT
                             ![n.beneficiary][f] = user_deposits[n.beneficiary][f] + lp_amount]
        /\ lp_total_supply' = [lp_total_supply EXCEPT ![f] = lp_total_supply[f] + lp_amount]
    BY <2>1, <2>3 DEF deposit
  <2>5. QED
    BY <1>1, <2>2, <2>4, SharesAfterChange
<1>4. ASSUME NEW u \in Users, NEW f \in Faucets, NEW lp \in Felt,
             withdraw_ok(u, f, lp), withdraw(u, f, lp)
      PROVE  LpSupplyIsSumOfShares'
  <2>1. user_deposits[u][f] \in Felt /\ lp_total_supply[f] \in Felt
    BY <1>1 DEF TypeOK
  <2>7. PICK d \in Int : d = 0 - lp
    BY FeltIsNat
  <2>2. lp \in Int /\ user_deposits[u][f] \in Int /\ lp_total_supply[f] \in Int
    BY <2>1, FeltIsNat
  <2>3. safe_sub_ok(user_deposits[u][f], lp) /\ safe_sub_ok(lp_total_supply[f], lp)
    <3>1. safe_sub(user_deposits[u][f], lp) \in Felt
      BY <2>1, FieldOperations
    <3>2. safe_sub(user_deposits[u][f], lp) \in Int
      BY <3>1, FeltIsNat
    <3>3. safe_sub(user_deposits[u][f], lp) <= user_deposits[u][f]
      BY <1>4, <2>2, <3>2 DEF withdraw_ok
    <3>4. QED
      BY <1>4, <3>3 DEF withdraw_ok, safe_sub_ok
  <2>4. /\ safe_sub(user_deposits[u][f], lp) = user_deposits[u][f] + d
        /\ safe_sub(lp_total_supply[f], lp) = lp_total_supply[f] + d
    <3>1. /\ safe_sub(user_deposits[u][f], lp) = user_deposits[u][f] - lp
          /\ safe_sub(lp_total_supply[f], lp) = lp_total_supply[f] - lp
      BY <2>1, <2>3, SafeSubIsSubtraction
    <3>2. QED
      BY <2>7, <2>2, <3>1
  <2>5. /\ user_deposits' = [user_deposits EXCEPT ![u][f] = user_deposits[u][f] + d]
        /\ lp_total_supply' = [lp_total_supply EXCEPT ![f] = lp_total_supply[f] + d]
    BY <1>4, <2>4 DEF withdraw
  <2>6. QED
    BY <1>1, <2>5, SharesAfterChange
<1>5. ASSUME NEW n \in notes, NEW amount_out \in Felt, NEW s \in AnyArgs, ConsumeWithdraw(n, amount_out, s)
      PROVE  LpSupplyIsSumOfShares'
  <2>1. n.beneficiary \in Users /\ n.expected \in Faucets /\ n.amount_input \in Felt
    BY <1>1 DEF TypeOK, Note, NoteInputs
  <2>2. /\ withdraw_ok(n.beneficiary, n.expected, n.amount_input)
        /\ withdraw(n.beneficiary, n.expected, n.amount_input)
    BY <1>5 DEF ConsumeWithdraw
  <2>3. QED
    BY <1>4, <2>1, <2>2
<1>6. ASSUME NEW n \in notes, NEW amount_out \in Felt, NEW s_in \in AnyArgs, NEW s_out \in AnyArgs,
             ConsumeSwap(n, amount_out, s_in, s_out)
      PROVE  UNCHANGED <<user_deposits, lp_total_supply>>
  BY <1>6 DEF ConsumeSwap, SwapOnPool
<1>7. ASSUME NEW n \in notes, NEW amount_out \in Felt, NEW sold \in Felt, NEW minimum \in Felt,
             NEW s_in \in AnyArgs, NEW s_out \in AnyArgs, NEW sell \in Faucets, NEW buy \in Faucets,
             NEW serial \in Serials,
             ConsumePosition(n, amount_out, s_in, s_out, sell, sold, buy, minimum, serial)
      PROVE  UNCHANGED <<user_deposits, lp_total_supply>>
  BY <1>7 DEF ConsumePosition, SwapOnPool
<1>8. ASSUME \/ \E n \in NewNotes : CreateNote(n)
             \/ \E n \in notes : ReclaimPosition(n)
             \/ \E f \in Faucets, s \in AnyArgs : SetPoolState(f, s)
             \/ UNCHANGED vars
      PROVE  UNCHANGED <<user_deposits, lp_total_supply>>
  BY <1>8 DEF CreateNote, ReclaimPosition, SetPoolState, vars
<1>9. LpSupplyIsSumOfShares'
  BY <1>2, <1>3, <1>5, <1>6, <1>7, <1>8 DEF AnyNext
<1>10. QED
  BY <1>1, <1>9 DEF SharesInv

\* The LP total supply that zoropool.masm keeps under [faucet, 0, 0] is the sum of the
\* users' shares under [faucet, user], for any number of users and deposits and whatever
\* amounts the operator passes: no addition or subtraction wraps for one and not the other.
THEOREM AccountSupplyIsShares == Spec => []LpSupplyIsSumOfShares
<1>1. SharesInv => LpSupplyIsSumOfShares
  BY DEF SharesInv
<1>2. QED
  BY <1>1, SharesInit, SharesNext, StepIsAnyStep, PTL DEF Spec
-----------------------------------------------------------------------------
(* Conservation of assets *)

\* What notes and wallets hold of an asset.
NotesHold(ns, f)  == SumFunction([n \in ns |-> n.assets[f]])
WalletsHold(w, f) == SumFunction([u \in Users |-> w[u][f]])

\* One more note holds its own assets in addition.
LEMMA OneMoreNote ==
  ASSUME NEW ns \in SUBSET Note, IsFiniteSet(ns), NEW n \in Note, n \notin ns, NEW f \in Faucets
  PROVE  /\ IsFiniteSet(ns \cup {n})
         /\ NotesHold(ns, f) \in Nat /\ NotesHold(ns \cup {n}, f) \in Nat /\ n.assets[f] \in Nat
         /\ NotesHold(ns \cup {n}, f) = NotesHold(ns, f) + n.assets[f]
<1> DEFINE T == ns \cup {n}
           before == [m \in ns |-> m.assets[f]]
           after == [m \in T |-> m.assets[f]]
<1>1. IsFiniteSet(T)
  BY FS_AddElement
<1>2. \A m \in Note : m.assets[f] \in Nat
  BY DEF Note
<1>3. before \in [ns -> Nat] /\ after \in [ns \cup {n} -> Nat] /\ after[n] = n.assets[f]
  BY <1>2
<1>4. \A m \in ns : after[m] = before[m]
  OBVIOUS
<1> HIDE DEF before, after
<1>5. SumFunction(after) = SumFunction(before) + after[n]
  BY <1>3, <1>4, SumWithOneMore
<1>6. SumFunction(after) \in Nat /\ SumFunction(before) \in Nat
  BY <1>1, <1>3, SumIsNat
<1>7. QED
  BY <1>1, <1>2, <1>3, <1>5, <1>6 DEF NotesHold, before, after

\* What a note holds is missing without it.
LEMMA OneNoteLess ==
  ASSUME NEW ns \in SUBSET Note, IsFiniteSet(ns), NEW n \in ns, NEW f \in Faucets
  PROVE  /\ IsFiniteSet(ns \ {n})
         /\ NotesHold(ns, f) \in Nat /\ NotesHold(ns \ {n}, f) \in Nat /\ n.assets[f] \in Nat
         /\ NotesHold(ns, f) = NotesHold(ns \ {n}, f) + n.assets[f]
<1>1. ns \ {n} \in SUBSET Note /\ n \in Note /\ n \notin ns \ {n} /\ (ns \ {n}) \cup {n} = ns
  OBVIOUS
<1>2. IsFiniteSet(ns \ {n})
  BY FS_RemoveElement
<1>3. QED
  BY <1>1, <1>2, OneMoreNote

\* The wallets together hold as much more as one of them does.
LEMMA OneWalletChanged ==
  ASSUME NEW w \in [Users -> [Faucets -> Nat]], NEW v \in [Users -> [Faucets -> Nat]],
         NEW u \in Users, NEW f \in Faucets, \A x \in Users \ {u} : v[x][f] = w[x][f]
  PROVE  /\ WalletsHold(w, f) \in Nat /\ WalletsHold(v, f) \in Nat
         /\ w[u][f] \in Nat /\ v[u][f] \in Nat
         /\ WalletsHold(v, f) + w[u][f] = WalletsHold(w, f) + v[u][f]
<1> DEFINE before == [x \in Users |-> w[x][f]]
           after == [x \in Users |-> v[x][f]]
<1>1. before \in [Users -> Nat] /\ after \in [Users -> Nat]
  OBVIOUS
<1>2. \A x \in Users \ {u} : after[x] = before[x]
  OBVIOUS
<1>6. before[u] = w[u][f] /\ after[u] = v[u][f]
  OBVIOUS
<1>7. IsFiniteSet(Users)
  BY AccountAssumption
<1> HIDE DEF before, after
<1>3. SumFunction(after) + before[u] = SumFunction(before) + after[u]
  <2>1. \A F, G \in [Users -> Nat] : (\A x \in Users \ {u} : G[x] = F[x])
          => SumFunction(G) + F[u] = SumFunction(F) + G[u]
    BY <1>7, SumWithOneChanged
  <2>2. QED
    BY <1>1, <1>2, <2>1
<1>4. SumFunction(after) \in Nat /\ SumFunction(before) \in Nat
  BY <1>1, <1>7, SumIsNat
<1>5. QED
  BY <1>1, <1>6, <1>3, <1>4 DEF WalletsHold, before, after

\* Finitely many notes exist at a time, and they hold what vault and wallets do not.
ConservedInv == TypeOK /\ IsFiniteSet(notes) /\ AssetsConserved

\* Everything is in the wallets of the users at the start.
LEMMA ConservedInit == Init => ConservedInv
<1> SUFFICES ASSUME Init PROVE ConservedInv
  OBVIOUS
<1>1. IsFiniteSet(notes)
  BY FS_EmptySet DEF Init
<1>2. ASSUME NEW f \in Faucets
      PROVE  vault[f] + NotesHold(notes, f) + WalletsHold(wallet, f) = Endowment * Cardinality(Users)
  <2>1. NotesHold(notes, f) = 0
    <3> DEFINE g == [n \in notes |-> n.assets[f]]
    <3>1. g \in [notes -> Nat] /\ notes = {}
      BY DEF Init
    <3> HIDE DEF g
    <3>2. SumFunction(g) = 0
      BY <1>1, <3>1, SumIsNat
    <3>3. QED
      BY <3>2 DEF NotesHold, g
  <2>2. WalletsHold(wallet, f) = Endowment * Cardinality(Users)
    <3>1. [u \in Users |-> wallet[u][f]] = [u \in Users |-> Endowment]
      BY DEF Init
    <3>2. SumFunction([u \in Users |-> Endowment]) = Endowment * Cardinality(Users)
      BY AccountAssumption, SumOfConstant
    <3>3. QED
      BY <3>1, <3>2 DEF WalletsHold
  <2>3. Endowment * Cardinality(Users) \in Nat
    BY AccountAssumption, FS_CardinalityType
  <2>4. QED
    BY <2>1, <2>2, <2>3 DEF Init
<1>3. QED
  BY <1>1, <1>2, TypeInit DEF ConservedInv, AssetsConserved, NotesHold, WalletsHold

\* What one step does to one asset f: it takes the note n, which held a of it, leaves a
\* note with b of it in its place or none (b is 0), and one wallet and the vault change.
LEMMA Balanced ==
  ASSUME ConservedInv, TypeOK', NEW f \in Faucets, NEW u \in Users,
         \A x \in Users \ {u} : wallet'[x][f] = wallet[x][f],
         NEW a \in Nat, NEW b \in Nat,
         NotesHold(notes', f) + a = NotesHold(notes, f) + b, NotesHold(notes', f) \in Nat,
         vault'[f] + b + wallet'[u][f] = vault[f] + a + wallet[u][f]
  PROVE  vault'[f] + NotesHold(notes', f) + WalletsHold(wallet', f) = Endowment * Cardinality(Users)
<1>1. /\ WalletsHold(wallet, f) \in Nat /\ WalletsHold(wallet', f) \in Nat
      /\ wallet[u][f] \in Nat /\ wallet'[u][f] \in Nat
      /\ WalletsHold(wallet', f) + wallet[u][f] = WalletsHold(wallet, f) + wallet'[u][f]
  BY OneWalletChanged DEF ConservedInv, TypeOK
<1>2. vault[f] \in Nat /\ vault'[f] \in Nat
  BY DEF ConservedInv, TypeOK
<1>3. NotesHold(notes, f) \in Nat
  <2> DEFINE g == [n \in notes |-> n.assets[f]]
  <2>1. g \in [notes -> Nat] /\ IsFiniteSet(notes)
    BY DEF ConservedInv, TypeOK, Note
  <2> HIDE DEF g
  <2>2. SumFunction(g) \in Nat
    BY <2>1, SumIsNat
  <2>3. QED
    BY <2>2 DEF NotesHold, g
<1>4. vault[f] + NotesHold(notes, f) + WalletsHold(wallet, f) = Endowment * Cardinality(Users)
  BY DEF ConservedInv, AssetsConserved, NotesHold, WalletsHold
<1>5. vault'[f] + NotesHold(notes', f) + WalletsHold(wallet', f)
        = vault[f] + NotesHold(notes, f) + WalletsHold(wallet, f)
  BY <1>1, <1>2, <1>3
<1>6. QED
  BY <1>4, <1>5
\* A consumed note holds nothing any more.
LEMMA NoteConsumed ==
  ASSUME ConservedInv, NEW n \in notes, notes' = notes \ {n}, NEW f \in Faucets
  PROVE  /\ IsFiniteSet(notes') /\ n.assets[f] \in Nat /\ NotesHold(notes', f) \in Nat
         /\ NotesHold(notes', f) + n.assets[f] = NotesHold(notes, f) + 0
<1>1. notes \in SUBSET Note /\ IsFiniteSet(notes)
  BY DEF ConservedInv, TypeOK
<1>2. /\ IsFiniteSet(notes') /\ n.assets[f] \in Nat
      /\ NotesHold(notes, f) \in Nat /\ NotesHold(notes', f) \in Nat
      /\ NotesHold(notes, f) = NotesHold(notes', f) + n.assets[f]
  BY <1>1, OneNoteLess
<1>3. QED
  BY <1>2

\* A note that is made anew holds what it is given.
LEMMA NoteRecreated ==
  ASSUME ConservedInv, NEW n \in notes, NEW m \in Note, m \notin notes,
         notes' = (notes \ {n}) \cup {m}, NEW f \in Faucets
  PROVE  /\ IsFiniteSet(notes') /\ n.assets[f] \in Nat /\ m.assets[f] \in Nat /\ NotesHold(notes', f) \in Nat
         /\ NotesHold(notes', f) + n.assets[f] = NotesHold(notes, f) + m.assets[f]
<1> DEFINE rest == notes \ {n}
<1>1. notes \in SUBSET Note /\ IsFiniteSet(notes)
  BY DEF ConservedInv, TypeOK
<1>2. /\ IsFiniteSet(rest) /\ n.assets[f] \in Nat
      /\ NotesHold(notes, f) \in Nat /\ NotesHold(rest, f) \in Nat
      /\ NotesHold(notes, f) = NotesHold(rest, f) + n.assets[f]
  BY <1>1, OneNoteLess
<1>3. rest \in SUBSET Note /\ m \notin rest /\ notes' = rest \cup {m}
  BY <1>1
<1> HIDE DEF rest
<1>4. /\ IsFiniteSet(rest \cup {m}) /\ NotesHold(rest \cup {m}, f) \in Nat /\ m.assets[f] \in Nat
      /\ NotesHold(rest \cup {m}, f) = NotesHold(rest, f) + m.assets[f]
  BY <1>2, <1>3, OneMoreNote
<1>5. IsFiniteSet(notes') /\ NotesHold(notes', f) = NotesHold(rest \cup {m}, f)
  BY <1>3, <1>4
<1>6. NotesHold(notes', f) + n.assets[f] = NotesHold(notes, f) + m.assets[f]
  BY <1>2, <1>4, <1>5
<1>7. QED
  BY <1>2, <1>4, <1>5, <1>6

\* A swap moves its two amounts in and out of the vault.
LEMMA SwapMoves ==
  ASSUME TypeOK, NEW f_in \in Faucets, NEW amount_in \in Nat, NEW s_in,
         NEW f_out \in Faucets, NEW amount_out \in Nat, NEW s_out,
         SwapOnPool(f_in, amount_in, s_in, f_out, amount_out, s_out), NEW f \in Faucets
  PROVE  vault'[f] = vault[f] + (IF f = f_in THEN amount_in ELSE 0) - (IF f = f_out THEN amount_out ELSE 0)
<1>1. vault' = remove_asset(f_out, amount_out, add_asset(f_in, amount_in, vault))
  BY DEF SwapOnPool
<1> DEFINE v == add_asset(f_in, amount_in, vault)
<1>2. v \in [Faucets -> Nat] /\ v[f] = vault[f] + (IF f = f_in THEN amount_in ELSE 0)
  BY DEF TypeOK, add_asset
<1>3. vault' = remove_asset(f_out, amount_out, v)
  BY <1>1
<1> HIDE DEF v
<1>4. vault'[f] = v[f] - (IF f = f_out THEN amount_out ELSE 0)
  BY <1>2, <1>3 DEF remove_asset
<1>5. vault[f] \in Nat
  BY DEF TypeOK
<1>6. QED
  BY <1>2, <1>4, <1>5

\* Every step keeps the books balanced.
LEMMA ConservedNext == ConservedInv /\ [AnyNext]_vars => ConservedInv'
<1> SUFFICES ASSUME ConservedInv, [AnyNext]_vars PROVE ConservedInv'
  OBVIOUS
<1> DEFINE Kept(f) == vault'[f] + NotesHold(notes', f) + WalletsHold(wallet', f) = Endowment * Cardinality(Users)
<1>1. TypeOK /\ TypeOK' /\ IsFiniteSet(notes)
  BY TypeNext DEF ConservedInv
<1>2. ASSUME IsFiniteSet(notes'), \A f \in Faucets : Kept(f) PROVE ConservedInv'
  BY <1>1, <1>2 DEF ConservedInv, AssetsConserved, NotesHold, WalletsHold
<1> HIDE DEF Kept
<1>3. ASSUME NEW n \in NewNotes, CreateNote(n) PROVE ConservedInv'
  <2>1. /\ n \in Note /\ n \notin notes /\ notes \in SUBSET Note /\ notes' = notes \cup {n}
        /\ n.sender \in Users
    BY <1>1, <1>3, NewNotesAreNotes DEF CreateNote, TypeOK, Note
  <2>2. IsFiniteSet(notes')
    BY <1>1, <2>1, FS_AddElement
  <2>3. ASSUME NEW f \in Faucets PROVE Kept(f)
    <3>1. /\ NotesHold(notes, f) \in Nat /\ NotesHold(notes', f) \in Nat /\ n.assets[f] \in Nat
          /\ NotesHold(notes', f) = NotesHold(notes, f) + n.assets[f]
      BY <1>1, <2>1, OneMoreNote
    <3>2. /\ \A x \in Users \ {n.sender} : wallet'[x][f] = wallet[x][f]
          /\ wallet'[n.sender][f] = wallet[n.sender][f] - n.assets[f]
          /\ vault' = vault
      BY <1>1, <1>3, <2>1 DEF CreateNote, TypeOK
    <3>3. vault'[f] + n.assets[f] + wallet'[n.sender][f] = vault[f] + 0 + wallet[n.sender][f]
      <4>1. vault[f] \in Nat /\ wallet[n.sender][f] \in Nat
        BY <1>1, <2>1 DEF TypeOK
      <4>2. QED
        BY <3>1, <3>2, <4>1
    <3>4. NotesHold(notes', f) + 0 = NotesHold(notes, f) + n.assets[f]
      BY <3>1
    <3>5. QED
      BY <1>1, <2>1, <3>1, <3>2, <3>3, <3>4, Balanced DEF Kept
  <2>4. QED
    BY <1>2, <2>2, <2>3
\* A consumed note whose assets go to the vault, or to the wallet of u.
<1>4. ASSUME NEW n \in notes, notes' = notes \ {n}, NEW u \in Users,
             \A f \in Faucets :
               /\ \A x \in Users \ {u} : wallet'[x][f] = wallet[x][f]
               /\ vault'[f] + wallet'[u][f] = vault[f] + n.assets[f] + wallet[u][f]
      PROVE  ConservedInv'
  <2>1. ASSUME NEW f \in Faucets PROVE Kept(f)
    <3>1. /\ n.assets[f] \in Nat /\ NotesHold(notes', f) \in Nat
          /\ NotesHold(notes', f) + n.assets[f] = NotesHold(notes, f) + 0
      BY <1>4, NoteConsumed
    <3>2. vault'[f] + 0 + wallet'[u][f] = vault[f] + n.assets[f] + wallet[u][f]
      <4>1. vault'[f] \in Nat
        BY <1>1 DEF TypeOK
      <4>2. QED
        BY <1>4, <4>1
    <3>3. QED
      BY <1>1, <1>4, <3>1, <3>2, Balanced DEF Kept
  <2>2. IsFiniteSet(notes')
    BY <1>1, <1>4, FS_RemoveElement
  <2>3. QED
    BY <1>2, <2>1, <2>2
<1>5. ASSUME NEW n \in notes, ReclaimPosition(n) PROVE ConservedInv'
  <2>1. n.beneficiary \in Users /\ n.assets \in [Faucets -> Nat] /\ notes' = notes \ {n}
    BY <1>1, <1>5 DEF TypeOK, Note, ReclaimPosition
  <2>2. ASSUME NEW f \in Faucets
        PROVE  /\ \A x \in Users \ {n.beneficiary} : wallet'[x][f] = wallet[x][f]
               /\ vault'[f] + wallet'[n.beneficiary][f] = vault[f] + n.assets[f] + wallet[n.beneficiary][f]
    <3>1. wallet'[n.beneficiary][f] = wallet[n.beneficiary][f] + n.assets[f] /\ vault' = vault
      BY <1>1, <1>5, <2>1 DEF ReclaimPosition, TypeOK
    <3>2. vault[f] \in Nat /\ wallet[n.beneficiary][f] \in Nat /\ n.assets[f] \in Nat
      BY <1>1, <2>1 DEF TypeOK
    <3>3. QED
      BY <1>1, <1>5, <3>1, <3>2 DEF ReclaimPosition, TypeOK
  <2>3. QED
    BY <1>4, <2>1, <2>2
<1>6. ASSUME NEW n \in notes, NEW lp_amount \in Felt, NEW s \in AnyArgs, ConsumeDeposit(n, lp_amount, s)
      PROVE  ConservedInv'
  <2>1. OneAsset(n)
    BY <1>6 DEF ConsumeDeposit
  <2>2. PICK g \in Attached(n) : vault' = add_asset(g, n.assets[g], vault)
    BY <1>6 DEF ConsumeDeposit
  <2>3. wallet' = wallet /\ notes' = notes \ {n} /\ n.sender \in Users
    BY <1>1, <1>6 DEF ConsumeDeposit, TypeOK, Note
  <2>4. ASSUME NEW f \in Faucets
        PROVE  vault'[f] + wallet'[n.sender][f] = vault[f] + n.assets[f] + wallet[n.sender][f]
    <3>1. n.assets \in [Faucets -> Nat] /\ (f # g => n.assets[f] = 0)
      BY <1>1, <2>1, <2>2, OnlyAsset DEF TypeOK, Note
    <3>2. vault[f] \in Nat /\ n.assets[f] \in Nat /\ wallet[n.sender][f] \in Nat
      BY <1>1, <2>3, <3>1 DEF TypeOK
    <3>3. vault'[f] = vault[f] + n.assets[f]
      BY <1>1, <2>2, <3>1, <3>2 DEF add_asset, TypeOK
    <3>4. QED
      BY <2>3, <3>2, <3>3
  <2>5. QED
    BY <1>4, <2>3, <2>4
<1>7. ASSUME NEW n \in notes, NEW amount_out \in Felt, NEW s \in AnyArgs, ConsumeWithdraw(n, amount_out, s)
      PROVE  ConservedInv'
  <2> DEFINE u == n.beneficiary
             g == n.expected
  <2>1. u \in Users /\ g \in Faucets /\ n.assets \in [Faucets -> Nat] /\ amount_out \in Nat
    BY <1>1, ArgumentTypes DEF TypeOK, Note
  <2>2. /\ notes' = notes \ {n} /\ Attached(n) = {}
        /\ vault' = [vault EXCEPT ![g] = @ - amount_out]
        /\ wallet' = [wallet EXCEPT ![u][g] = @ + amount_out]
    BY <1>7 DEF ConsumeWithdraw, remove_asset, Credit
  <2>3. ASSUME NEW f \in Faucets
        PROVE  /\ \A x \in Users \ {u} : wallet'[x][f] = wallet[x][f]
               /\ vault'[f] + wallet'[u][f] = vault[f] + n.assets[f] + wallet[u][f]
    <3>1. n.assets[f] = 0
      BY <2>1, <2>2 DEF Attached
    <3>2. vault[f] \in Nat /\ wallet[u][f] \in Nat
      BY <1>1, <2>1 DEF TypeOK
    <3>3. \A x \in Users \ {u} : wallet'[x][f] = wallet[x][f]
      BY <1>1, <2>1, <2>2 DEF TypeOK
    <3>4. wallet'[u][f] = wallet[u][f] + (IF f = g THEN amount_out ELSE 0)
      BY <1>1, <2>1, <2>2, <3>2 DEF TypeOK
    <3>5. vault'[f] = vault[f] - (IF f = g THEN amount_out ELSE 0)
      BY <1>1, <2>1, <2>2, <3>2 DEF TypeOK
    <3>6. QED
      BY <2>1, <3>1, <3>2, <3>3, <3>4, <3>5
  <2>4. QED
    BY <1>4, <2>1, <2>2, <2>3
<1>8. ASSUME NEW n \in notes, NEW amount_out \in Felt, NEW s_in \in AnyArgs, NEW s_out \in AnyArgs,
             ConsumeSwap(n, amount_out, s_in, s_out)
      PROVE  ConservedInv'
  <2>1. OneAsset(n)
    BY <1>8 DEF ConsumeSwap
  <2> DEFINE u == n.beneficiary
             g == n.expected
  <2>2. PICK h \in Attached(n) : SwapOnPool(h, n.assets[h], s_in, g, amount_out, s_out)
    BY <1>8 DEF ConsumeSwap
  <2>3. u \in Users /\ g \in Faucets /\ h \in Faucets /\ n.assets \in [Faucets -> Nat] /\ amount_out \in Nat
    BY <1>1, ArgumentTypes DEF TypeOK, Note, Attached
  <2>4. notes' = notes \ {n} /\ wallet' = [wallet EXCEPT ![u][g] = @ + amount_out]
    BY <1>8 DEF ConsumeSwap, Credit
  <2>5. ASSUME NEW f \in Faucets
        PROVE  /\ \A x \in Users \ {u} : wallet'[x][f] = wallet[x][f]
               /\ vault'[f] + wallet'[u][f] = vault[f] + n.assets[f] + wallet[u][f]
    <3>1. n.assets[f] \in Nat /\ (f # h => n.assets[f] = 0)
      BY <1>1, <2>1, <2>3, OnlyAsset
    <3>2. vault[f] \in Nat /\ wallet[u][f] \in Nat /\ n.assets[h] \in Nat
      BY <1>1, <2>3 DEF TypeOK
    <3>3. vault'[f] = vault[f] + (IF f = h THEN n.assets[h] ELSE 0) - (IF f = g THEN amount_out ELSE 0)
      BY <1>1, <2>2, <2>3, <3>2, SwapMoves
    <3>4. \A x \in Users \ {u} : wallet'[x][f] = wallet[x][f]
      BY <1>1, <2>3, <2>4 DEF TypeOK
    <3>5. wallet'[u][f] = wallet[u][f] + (IF f = g THEN amount_out ELSE 0)
      BY <1>1, <2>3, <2>4, <3>2 DEF TypeOK
    <3>6. QED
      BY <2>3, <3>1, <3>2, <3>3, <3>4, <3>5
  <2>6. QED
    BY <1>4, <2>3, <2>4, <2>5
<1>9. ASSUME NEW n \in notes, NEW amount_out \in Felt, NEW sold \in Felt, NEW minimum \in Felt,
              NEW s_in \in AnyArgs, NEW s_out \in AnyArgs, NEW sell \in Faucets, NEW buy \in Faucets,
              NEW serial \in Serials,
              ConsumePosition(n, amount_out, s_in, s_out, sell, sold, buy, minimum, serial)
      PROVE  ConservedInv'
  <2>1. /\ n \in Note /\ n.sender \in Users /\ n.assets \in [Faucets -> Nat]
        /\ amount_out \in Nat /\ sold \in Nat /\ wallet' = wallet
    BY <1>1, <1>9, ArgumentTypes DEF ConsumePosition, TypeOK, Note
  \* The note that is made in the place of n holds assets, and the vault the rest.
  <2>2. ASSUME NEW assets \in [Faucets -> Nat], notes' = (notes \ {n}) \cup {RecreatedNote(n, serial, assets)},
               \A f \in Faucets : vault'[f] + assets[f] = vault[f] + n.assets[f]
        PROVE  ConservedInv'
    <3> DEFINE m == RecreatedNote(n, serial, assets)
    <3>1. m \in Note /\ m.assets = assets /\ m.serial = serial
      BY <2>1 DEF Note, RecreatedNote
    <3>2. m \notin notes
      BY <1>9, <3>1 DEF ConsumePosition
    <3>3. notes' = (notes \ {n}) \cup {m}
      BY <2>2
    <3> HIDE DEF m
    <3>4. ASSUME NEW f \in Faucets PROVE Kept(f) /\ IsFiniteSet(notes')
      <4>1. /\ IsFiniteSet(notes') /\ n.assets[f] \in Nat /\ assets[f] \in Nat /\ NotesHold(notes', f) \in Nat
            /\ NotesHold(notes', f) + n.assets[f] = NotesHold(notes, f) + assets[f]
        BY <3>1, <3>2, <3>3, NoteRecreated
      <4>2. vault'[f] + assets[f] + wallet'[n.sender][f] = vault[f] + n.assets[f] + wallet[n.sender][f]
        BY <2>1, <2>2
      <4>3. QED
        BY <1>1, <2>1, <4>1, <4>2, Balanced DEF Kept
    <3>5. IsFiniteSet(notes')
      BY <1>1, <3>3, FS_RemoveElement, FS_AddElement
    <3>6. QED
      BY <1>2, <3>4, <3>5
  <2>3. CASE MinimumNotMet(amount_out, minimum)
    <3>1. notes' = (notes \ {n}) \cup {RecreatedNote(n, serial, n.assets)} /\ vault' = vault
      BY <1>9, <2>3 DEF ConsumePosition
    <3>2. QED
      BY <2>1, <2>2, <3>1
  <2>4. CASE ~ MinimumNotMet(amount_out, minimum)
    <3> DEFINE assets == RecreatedAssets(n.assets, sell, sold, buy, amount_out)
    <3>1. /\ sell = buy => sold = 0
          /\ sold <= n.assets[sell]
          /\ SwapOnPool(sell, sold, s_in, buy, amount_out, s_out)
          /\ notes' = (notes \ {n}) \cup {RecreatedNote(n, serial, assets)}
      BY <1>9, <2>4 DEF ConsumePosition
    <3>2. /\ assets \in [Faucets -> Nat]
          /\ \A f \in Faucets :
               assets[f] = n.assets[f] - (IF f = sell THEN sold ELSE 0) + (IF f = buy THEN amount_out ELSE 0)
      BY <2>1, <3>1 DEF RecreatedAssets
    <3> HIDE DEF assets
    <3>3. ASSUME NEW f \in Faucets PROVE vault'[f] + assets[f] = vault[f] + n.assets[f]
      <4>1. vault'[f] = vault[f] + (IF f = sell THEN sold ELSE 0) - (IF f = buy THEN amount_out ELSE 0)
        BY <1>1, <2>1, <3>1, SwapMoves
      <4>2. vault[f] \in Nat /\ n.assets[f] \in Nat
        BY <1>1, <2>1 DEF TypeOK
      <4>3. QED
        BY <2>1, <3>2, <4>1, <4>2
    <3>4. QED
      BY <2>2, <3>1, <3>2, <3>3
  <2>5. QED
    BY <2>3, <2>4
<1>10. ASSUME UNCHANGED <<vault, notes, wallet>> PROVE ConservedInv'
  BY <1>1, <1>10 DEF ConservedInv, AssetsConserved
<1>11. CASE \/ \E f \in Faucets, s \in AnyArgs : SetPoolState(f, s)
            \/ UNCHANGED vars
  BY <1>10, <1>11 DEF SetPoolState, vars
<1>12. QED
  BY <1>3, <1>5, <1>6, <1>7, <1>8, <1>9, <1>11 DEF AnyNext

\* No note script and no operator makes or loses an asset: what the vault, the notes and
\* the wallets hold together stays what the users began with, whichever notes are made,
\* consumed, recreated or reclaimed, with any arguments.
THEOREM AccountConservesAssets == Spec => []AssetsConserved
<1>1. ConservedInv => AssetsConserved
  BY DEF ConservedInv
<1>2. QED
  BY <1>1, ConservedInit, ConservedNext, StepIsAnyStep, PTL DEF Spec
=============================================================================
