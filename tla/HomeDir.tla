------------------------------- MODULE HomeDir -------------------------------
(***************************************************************************)
(* The files under ~/.border that the command line and the node share: the *)
(* wallet file, which `border wallet ...` and the node's start both write, *)
(* and the channel and receipt files of `border payment ...`.  Commands    *)
(* are processes: they may be killed between two writes or inside one      *)
(* (write_text truncates first, so the file is then torn), and two         *)
(* terminals may run them at once.                                         *)
(***************************************************************************)
EXTENDS Naturals, FiniteSets

CONSTANTS
    Terminals,      \* shells in which the user runs commands
    Seeds,          \* random draws: entropy of keys and of phrases
    Passphrases,    \* BIP-39 passphrases the user may type
    Password,       \* the password of an encrypted wallet file
    Deposit         \* coins put into the channel

ASSUME HomeAssumption ==
    IsFiniteSet(Seeds) /\ Deposit \in Nat

VARIABLES
    wallet,         \* the wallet file
    drawn,          \* seeds used so far
    phrases,        \* recovery phrases written down: key they stand for
    channel,        \* the channel file
    receipts,       \* the receipt files: the promises the receiver may get
    cli,            \* per terminal: the command in progress
    overlap         \* two payment commands ran at the same time

homeVars == <<wallet, drawn, phrases,
              channel, receipts, cli, overlap>>
walletVars == <<wallet, drawn, phrases>>
paymentVars == <<channel, receipts, cli, overlap>>

Plain == "plain"
Keys == Seeds \X (Passphrases \union {"none"})
NoFile == [there |-> "no"]
Torn == [there |-> "torn"]
WalletFile(key, lock, by) ==
    [there |-> "yes", key |-> key, lock |-> lock, by |-> by]

(* save: encrypted under the password if there is one; killed inside       *)
(* write_text it leaves a file that cannot be parsed.                      *)
Save(key, lock, by) ==
    {WalletFile(key, lock, by), [there |-> "torn", by |-> by]}

(* load: an encrypted file needs its password, a torn one cannot be read.  *)
Loads(file, lock) ==
    /\ file.there = "yes"
    /\ file.lock \in {Plain, lock}

MnemonicKey(phrase, passphrase) == <<phrase, passphrase>>
-----------------------------------------------------------------------------
(***************************************************************************)
(* The wallet commands and the node's start.                               *)
(***************************************************************************)
MayWrite(force) == wallet.there = "no" \/ force

(* border wallet new [--force] [--password] *)
WalletNew(seed, lock, force) ==
    /\ seed \notin drawn /\ MayWrite(force)
    /\ wallet' \in Save(<<seed, "none">>, lock, "user")
    /\ drawn' = drawn \union {seed}
    /\ UNCHANGED phrases

(* border wallet new-mnemonic: the phrase is shown after the file is       *)
(* written, so a command killed in write_text shows none.                  *)
WalletNewMnemonic(seed, passphrase, lock, force) ==
    /\ seed \notin drawn /\ MayWrite(force)
    /\ wallet' \in Save(MnemonicKey(seed, passphrase), lock, "user")
    /\ phrases' = IF wallet'.there = "torn" THEN phrases
                  ELSE phrases \union
                         {[phrase |-> seed, passphrase |-> passphrase,
                           key |-> MnemonicKey(seed, passphrase)]}
    /\ drawn' = drawn \union {seed}

(* border wallet recover: any passphrase is accepted with a valid phrase.  *)
WalletRecover(p, passphrase, lock, force) ==
    /\ p \in phrases /\ MayWrite(force)
    /\ wallet' \in Save(MnemonicKey(p.phrase, passphrase), lock, "user")
    /\ UNCHANGED <<drawn, phrases>>

(* _load_wallet of the node runner: it asks for no password, and whatever  *)
(* goes wrong in load makes it generate a wallet and save that in the same *)
(* place.                                                                  *)
NodeLoadWallet(seed) ==
    IF Loads(wallet, Plain)
    THEN UNCHANGED <<wallet, drawn>>
    ELSE /\ seed \notin drawn
         /\ wallet' \in Save(<<seed, "none">>, Plain, "node")
         /\ drawn' = drawn \union {seed}

NodeStart(seed) ==
    /\ NodeLoadWallet(seed)
    /\ UNCHANGED phrases

WalletStep ==
    \/ \E s \in Seeds, l \in {Plain, Password}, f \in BOOLEAN :
          WalletNew(s, l, f)
    \/ \E s \in Seeds, pp \in Passphrases, l \in {Plain, Password},
          f \in BOOLEAN : WalletNewMnemonic(s, pp, l, f)
    \/ \E p \in phrases, pp \in Passphrases, l \in {Plain, Password},
          f \in BOOLEAN : WalletRecover(p, pp, l, f)
    \/ \E s \in Seeds : NodeStart(s)
-----------------------------------------------------------------------------
(***************************************************************************)
(* The payment commands.  Each reads the channel file into a manager of    *)
(* its own, calls it, and writes the files back.                           *)
(***************************************************************************)
Resting == [at |-> "idle"]

NewChannel(key) ==
    [there |-> "yes", sender |-> key, nonce |-> 0, paid |-> 0,
     state |-> "open"]

Begin(t, work) ==
    /\ cli[t].at = "idle"
    /\ cli' = [cli EXCEPT ![t] = work]
    /\ overlap' = (overlap \/ \E u \in Terminals : cli[u].at # "idle")

(* The user types the right password; a torn or missing file ends the      *)
(* command here.                                                           *)
OwnKey == IF Loads(wallet, Password) THEN {wallet.key} ELSE {}

PaymentOpen(t) ==
    /\ channel.there = "no"
    /\ \E key \in OwnKey :
          \E file \in {NewChannel(key), Torn} : channel' = file
    /\ cli[t].at = "idle"
    /\ UNCHANGED <<cli, receipts, overlap>>

(* The command goes on with the channel and the receipt in memory. *)
Signed(t, inc, amount) ==
    /\ LET ch == [channel EXCEPT !.nonce = @ + 1, !.paid = @ + inc] IN
         Begin(t, [at |-> "send", ch |-> ch,
                   receipt |-> [nonce |-> ch.nonce, amount |-> amount]])
    /\ UNCHANGED <<channel, receipts>>

(* send: the manager checks and signs before anything is written. *)
SignReceipt(t, inc) ==
    /\ channel.there = "yes"
    /\ channel.state = "open" /\ channel.sender \in OwnKey
    /\ channel.paid + inc <= Deposit
    /\ Signed(t, inc, channel.paid + inc)

(* close and settle, without a chain. *)
CloseChannel(t) ==
    /\ channel.there = "yes"
    /\ channel.state = "open" /\ channel.sender \in OwnKey
    /\ Begin(t, [at |-> "close", ch |-> [channel EXCEPT !.state = "closed"]])
    /\ UNCHANGED <<channel, receipts>>

(* Mutant: the channel file is written back by close only. *)
SaveChannelOnClose(t) ==
    /\ cli[t].at \in {"send", "close"}
    /\ channel' = IF cli[t].at = "send" THEN channel ELSE cli[t].ch
    /\ cli' = IF cli[t].at = "send"
              THEN [cli EXCEPT ![t].at = "receipt"]
              ELSE [cli EXCEPT ![t] = Resting]
    /\ UNCHANGED <<receipts, overlap>>

(* The channel file first... *)
SaveChannel(t) ==
    /\ cli[t].at \in {"send", "close"}
    /\ channel' = cli[t].ch
    /\ cli' = IF cli[t].at = "send"
              THEN [cli EXCEPT ![t].at = "receipt"]
              ELSE [cli EXCEPT ![t] = Resting]
    /\ UNCHANGED <<receipts, overlap>>

(* ...then the receipt. *)
SaveReceipt(t) ==
    /\ cli[t].at = "receipt"
    /\ receipts' = receipts \union {cli[t].receipt}
    /\ cli' = [cli EXCEPT ![t] = Resting]
    /\ UNCHANGED <<channel, overlap>>

(* The command is killed, perhaps inside the write of the channel file. *)
Killed(t) ==
    /\ cli[t].at # "idle"
    /\ channel' \in {channel} \union (IF cli[t].at = "receipt"
                                      THEN {} ELSE {Torn})
    /\ cli' = [cli EXCEPT ![t] = Resting]
    /\ UNCHANGED <<receipts, overlap>>

PaymentStep ==
    \E t \in Terminals :
        \/ PaymentOpen(t)
        \/ \E inc \in 1..Deposit : SignReceipt(t, inc)
        \/ CloseChannel(t)
        \/ SaveChannel(t)
        \/ SaveReceipt(t)
        \/ Killed(t)
-----------------------------------------------------------------------------
HomeInit ==
    /\ wallet = NoFile /\ drawn = {} /\ phrases = {}
    /\ channel = NoFile /\ receipts = {} /\ overlap = FALSE
    /\ cli = [t \in Terminals |-> Resting]

HomeNext ==
    \/ WalletStep /\ UNCHANGED paymentVars
    \/ PaymentStep /\ UNCHANGED walletVars

HomeSpec == HomeInit /\ [][HomeNext]_homeVars
-----------------------------------------------------------------------------
(***************************************************************************)
(* Properties.                                                             *)
(***************************************************************************)
(* Files are absent, torn or whole; a channel never counts more as paid    *)
(* than was deposited; a command in progress holds a channel of its own.   *)
HomeTypeOK ==
    /\ wallet = NoFile \/ wallet.by \in {"user", "node"}
    /\ wallet.there = "yes" => /\ wallet.key \in Keys
                               /\ wallet.lock \in {Plain, Password}
    /\ drawn \subseteq Seeds
    /\ \A p \in phrases : p.phrase \in drawn /\ p.key \in Keys
    /\ channel.there = "yes" => channel.paid \in 0..Deposit
    /\ \A t \in Terminals :
          cli[t].at \in {"idle", "send", "receipt", "close"}
    /\ overlap \in BOOLEAN

(* Two different wallets made from phrases never come out of the same      *)
(* phrase and passphrase, and writing down both brings the wallet back:    *)
(* nobody else's wallet is recovered by a phrase.                          *)
PhraseIsTheWallet ==
    \A p \in phrases, pp \in Passphrases :
        (MnemonicKey(p.phrase, pp) = p.key) <=> (pp = p.passphrase)

(* The payer never has two receipts with the same nonce over different     *)
(* amounts, nor one with a nonce ahead of the channel it will send the     *)
(* next one from, wherever a command was killed: as long as payment        *)
(* commands do not overlap.                                                *)
NonceSignedOnce ==
    ~overlap =>
        /\ \A r1, r2 \in receipts : r1.nonce = r2.nonce => r1 = r2
        /\ \A r \in receipts :
              channel.there = "yes" => /\ r.nonce <= channel.nonce
                                       /\ r.amount <= channel.paid

(* A later receipt is never worth less, and none is worth more than the    *)
(* deposit.                                                                *)
ReceiptsGrow ==
    /\ \A r \in receipts : r.amount \in 1..Deposit
    /\ ~overlap => \A r1, r2 \in receipts :
                      r1.nonce < r2.nonce => r1.amount < r2.amount

(* What the files say agrees with what was signed and written down, wherever a command *)
(* was killed.                                                              *)
HomeConsistent == HomeTypeOK /\ PhraseIsTheWallet /\ NonceSignedOnce /\ ReceiptsGrow
=============================================================================
