------------------------------ MODULE CpiProofs ------------------------------
(***************************************************************************)
(* What the ports of cpi do, for any addresses, bump seeds and contents of *)
(* the stack.                                                              *)
(***************************************************************************)
EXTENDS Cpi, TLAPS

SpaceType == port \in CpiPorts /\ space \in [Address -> {0, SIZE}]

\* A call that succeeds has the system program allocate at the derived address.
LEMMA InvokeSignedAllocates ==
    ASSUME SpaceType, NEW c \in CpiCalls, NEW callee, NEW number, NEW k, NEW bump,
           InvokeSigned(c, callee, number, k, bump) # Refused
    PROVE  /\ space[k] = 0
           /\ InvokeSigned(c, callee, number, k, bump) = [space EXCEPT ![k] = SIZE]
BY DEF InvokeSigned, CanAllocate

\* What a bump seed leads to is off the curve or an address nobody can sign for.
LEMMA DerivedTyped ==
    ASSUME AddressAssumption, NEW bump \in Bump
    PROVE  Derived[bump] \in Address \cup {None}
<1> DEFINE D == (Address \ (Wallet \cup {SystemProgram})) \cup {None}
<1>1. Derived \in [Bump -> D]
  BY Zenon DEF AddressAssumption
<1>2. \A x \in D : x \in Address \cup {None}
  OBVIOUS
<1> HIDE DEF D
<1>3. Derived[bump] \in D
  BY <1>1, Zenon
<1> QED
  BY <1>2, <1>3, Zenon

\* Whichever port it is.
LEMMA InvokeAllocates ==
    ASSUME SpaceType, AddressAssumption, CpiInvoke
    PROVE  \E bump \in Bump :
              /\ Derived[bump] \in Address
              /\ space[Derived[bump]] = 0
              /\ space' = [space EXCEPT ![Derived[bump]] = SIZE]
<1>1. PICK c \in CpiCalls : space' \in CpiOutcomes(port, c) \ {Refused}
  BY DEF CpiInvoke
<1>2. c.bump \in Bump \cup {None} /\ c.next \in Bump
  BY DEF CpiCalls
<1>3. PICK callee, number, k, bump :
         /\ bump \in Bump /\ ExpectedKey(k, bump)
         /\ space' = InvokeSigned(c, callee, number, k, bump)
  <2>1. CASE port = "Rust"
    BY <1>1, <1>2, <2>1 DEF CpiOutcomes, CpiRust
  <2>2. CASE port = "Pinocchio"
    BY <1>1, <1>2, <2>2 DEF CpiOutcomes, CpiPinocchio
  <2>3. CASE port = "Zig"
    BY <1>1, <1>2, <2>3 DEF CpiOutcomes, CpiZig, BumpRead
  <2>4. CASE port = "C"
    BY <1>1, <1>2, <2>4 DEF CpiOutcomes, CpiC, BumpRead
  <2> QED
    BY <2>1, <2>2, <2>3, <2>4 DEF SpaceType, CpiPorts
<1>4. k = Derived[bump] /\ Derived[bump] \in Address
  <2>1. bump \in Bump /\ Derived[bump] # None /\ k = Derived[bump]
    BY <1>3, Zenon DEF ExpectedKey
  <2> QED
    BY <2>1, DerivedTyped
<1>5. InvokeSigned(c, callee, number, k, bump) # Refused
  BY <1>1, <1>3
<1>6. space[k] = 0 /\ space' = [space EXCEPT ![k] = SIZE]
  BY <1>3, <1>5, InvokeSignedAllocates
<1>7. bump \in Bump
  BY <1>3
<1> QED
  BY <1>4, <1>6, <1>7, Zenon

\* Space is either there or not.
LEMMA SpaceTyped == AddressAssumption /\ CpiSpec => []SpaceType
<1> SUFFICES ASSUME AddressAssumption PROVE CpiSpec => []SpaceType
  OBVIOUS
<1>1. CpiInit => SpaceType
  BY DEF CpiInit, SpaceType
<1>2. SpaceType /\ [CpiNext]_cpiVars => SpaceType'
  <2> SUFFICES ASSUME SpaceType, [CpiNext]_cpiVars PROVE SpaceType'
    OBVIOUS
  <2>1. CASE CpiInvoke
    BY <2>1, InvokeAllocates DEF SpaceType, CpiInvoke
  <2>2. CASE UNCHANGED cpiVars
    BY <2>2 DEF SpaceType, cpiVars
  <2> QED
    BY <2>1, <2>2 DEF CpiNext
<1> QED
  BY <1>1, <1>2, PTL DEF CpiSpec

\* Only addresses derived by the program get space, once, and all the same.
THEOREM CpiAllocatesDerived ==
    AddressAssumption /\ CpiSpec => OnlyDerivedAddressesGrow
<1> SUFFICES ASSUME AddressAssumption PROVE CpiSpec => OnlyDerivedAddressesGrow
  OBVIOUS
<1>1. SpaceType /\ [CpiNext]_cpiVars => [DerivedAddressesGrow]_cpiVars
  <2> SUFFICES ASSUME SpaceType, CpiInvoke PROVE DerivedAddressesGrow
    BY DEF CpiNext
  <2> QED
    BY InvokeAllocates DEF DerivedAddressesGrow, SpaceType
<1> QED
  BY <1>1, SpaceTyped, PTL DEF CpiSpec, OnlyDerivedAddressesGrow

\* A call as in the README has one outcome under three of the ports, and the C
\* port can have it.
THEOREM CpiPortsDoTheSame ==
    AddressAssumption /\ CpiSpec => []CpiPortsAgree
<1> SUFFICES ASSUME AddressAssumption PROVE CpiSpec => []CpiPortsAgree
  OBVIOUS
<1>1. CpiPortsAgree
  <2> SUFFICES ASSUME NEW c \in CpiCalls, CpiProper(c)
               PROVE  /\ CpiRust(c) = CpiPinocchio(c) /\ CpiRust(c) = CpiZig(c)
                      /\ CpiRust(c) \subseteq CpiC(c)
    BY DEF CpiPortsAgree
  <2>1. Len(c.accounts) = 2 /\ c.accounts[2] = SystemProgram /\ c.bump # None
    BY DEF CpiProper
  <2>2. BumpRead(c) = c.bump
    BY <2>1 DEF BumpRead
  <2>3. CpiRust(c) = CpiPinocchio(c) /\ CpiRust(c) = CpiZig(c)
    BY <2>1, <2>2 DEF CpiRust, CpiPinocchio, CpiZig
  <2>4. 8 \in CNumber
    BY DEF CNumber, AddressAssumption
  <2>5. CpiRust(c) \subseteq CpiC(c)
    BY <2>1, <2>2, <2>4 DEF CpiRust, CpiC
  <2> QED
    BY <2>3, <2>5
<1> QED
  BY <1>1, PTL
=============================================================================
