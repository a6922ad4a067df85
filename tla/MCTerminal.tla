----------------------------- MODULE MCTerminal -----------------------------
EXTENDS Terminal

MCMode(canon, shown) ==
  [icanon |-> canon, echo |-> shown, isig |-> TRUE, icrnl |-> TRUE, onlcr |-> TRUE]

MCDefault == MCMode(TRUE, TRUE)
MCSettings == {MCDefault, MCMode(FALSE, FALSE)}

MCChar(byte) == [type |-> "char", byte |-> byte]
MCSerial(byte) == [type |-> "serial", byte |-> byte]
MCManager(byte) == [type |-> "manager", byte |-> byte]
MCOutput(bytes) == [type |-> "output", bytes |-> bytes]
MCSwitch(to) ==
  <<[type |-> "down", key |-> "ctrl"], [type |-> "down", key |-> "alt"],
    [type |-> "function", to |-> to], [type |-> "up", key |-> "alt"]>>

\* Typing with a switch of consoles in the middle, serial input between keys,
\* and both ends of the pseudo-terminal, with an echo and a write that do not fit
\* the buffer and something behind them.
MCScript ==
  {<<MCChar(a)>> \o MCSwitch("tty1") \o <<MCChar(b), MCChar("nl")>> :
     a \in {"x", "intr"}, b \in {"del", "hist"}}
    \cup {<<MCChar("x")>> \o MCSwitch("tty1") \o MCSwitch("tty0") \o <<MCChar("nl")>>}
    \cup {<<MCSerial(a), MCChar(b), MCSerial("nl"), MCSerial("x")>> :
             a \in {"x", "hist"}, b \in {"kill", "nl"}}
    \cup {<<MCManager("x"), MCOutput(<<"x", "y">>), MCManager(p[1]), MCOutput(<<"y", "nl">>),
            MCManager(p[2]), MCOutput(<<"x">>)>> : p \in {<<"x", "x">>, <<"x", "cr">>, <<"del", "cr">>}}
=============================================================================
