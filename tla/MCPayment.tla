------------------------------ MODULE MCPayment ------------------------------
(* The palette of offers and names for the run of Selection.                  *)
EXTENDS Selection, TLC

CONSTANTS Usdc, SepoliaUsdc, Shop, OtherShop, NotAnAddress

MCTexts == {"base", "8453", "84532", "base-sepolia", Mainnet, Sepolia, "solana", "ethereum",
            "exact", "upto", "", "eip3009", "permit2"}
MCAddressTexts == {Usdc, SepoliaUsdc, Shop, OtherShop, NotAnAddress}
MCAddresses == {Usdc, SepoliaUsdc, Shop, OtherShop}
MCAllowedNetworks == {Mainnet, Sepolia}
MCAllowedAssets == (Mainnet :> Usdc) @@ (Sepolia :> SepoliaUsdc)

Plain == [scheme |-> "exact", network |-> "base", amount |-> 1, legacyAmount |-> -1,
          asset |-> Usdc, payTo |-> Shop, transfer |-> "", timeout |-> None]

\* The usual option and the ways it can differ: alias, price at, under and over
\* the caps, zero and unreadable prices, the other network, and each refusal.
MCOffers ==
  {Plain,
   [Plain EXCEPT !.network = Mainnet, !.transfer = "eip3009", !.timeout = LongestTimeout],
   [Plain EXCEPT !.amount = 2],
   [Plain EXCEPT !.amount = OperatorCap + 1],
   [Plain EXCEPT !.amount = 0],
   [Plain EXCEPT !.amount = -1, !.legacyAmount = OperatorCap],
   [Plain EXCEPT !.amount = -1],
   [Plain EXCEPT !.timeout = LongestTimeout + 1],
   [Plain EXCEPT !.network = "base-sepolia", !.asset = SepoliaUsdc, !.payTo = OtherShop],
   [Plain EXCEPT !.asset = SepoliaUsdc],
   [Plain EXCEPT !.payTo = NotAnAddress],
   [Plain EXCEPT !.scheme = "upto"],
   [Plain EXCEPT !.transfer = "permit2"],
   [Plain EXCEPT !.network = "solana"]}

MCNames == {"base", "84532", "ethereum"}
MCAssets == {Usdc, SepoliaUsdc}

=============================================================================
