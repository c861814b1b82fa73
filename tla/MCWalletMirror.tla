---------------------------- MODULE MCWalletMirror ----------------------------
EXTENDS WalletMirror, TLC

CONSTANTS w1, w2, alice, bob, usdc, eurc, ata1, ata2

MCOwnerOf == w1 :> alice @@ w2 :> bob
MCMintOf == w1 :> usdc @@ w2 :> eurc
MCTokenAccountOf == w1 :> ata1 @@ w2 :> ata2
MCTokens == {<<0, 1>>}
MCPlanId == <<1>>
===============================================================================
