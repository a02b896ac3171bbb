----------------------------- MODULE MCRxFraming -----------------------------
(* What a panel sends in the instance of RxFraming that TLC checks.         *)
EXTENDS RxFraming, TLC

Says(c, p) == [cmd |-> c, payload |-> p]
\* A Basic frame around a body, and what the reader is to make of it.
Basic(body, says) ==
    LET inner == <<Len(body) + 2, 0>> \o body
        sum   == FoldLeft(+, 0, inner)
    IN  [bytes |-> <<START>> \o inner \o <<sum % 256, sum \div 256, END>>, says |-> says]
\* An iOS-LE frame: the checksum is not compared, so any will do.
Ios(c, p) ==
    [bytes |-> HEADER \o <<Len(p) + 4, 0, 0, c>> \o p \o <<0, 0, END>>, says |-> Says(c, p)]
Noise(b) == [bytes |-> b, says |-> Silence]

Frames == {Basic(<<70>>, Says(70, <<>>)), Basic(<<49, 1, 2>>, Says(49, <<1, 2>>)),
           Basic(<<4, 70, 85, 1>>, Says(70, <<1>>)), Basic(<<139, 1, 255, 255>>, Says(139, <<1, 255, 255>>))}
\* Stray bytes, start bytes with no length behind them, lengths that cover
\* part of the next frame, all of it, more than it, and more than the bound.
Noises == {Noise(b) : b \in {<<0>>, <<END>>, <<START>>, <<START, 0>>, <<START, 2, 0>>, <<START, 5, 0>>,
                             <<START, 12, 0>>, <<START, 200, 0>>, <<0, 0, 0, 0, 0, 0, 0, 0>>}}
BasicScripts == {<<n, f, m, g>> : n \in Noises, m \in Noises, f \in Frames, g \in Frames}
IosScripts == {<<f, g>> : f \in {Ios(70, <<9>>), Ios(49, <<1, 2>>)}, g \in {Ios(70, <<9>>), Ios(139, <<>>)}}
             \cup {<<Noise(HEADER \o <<255, 255>> \o <<0, 0, 0, 0, 0>>), f>> : f \in Frames}
MCScripts == BasicScripts \cup IosScripts
=============================================================================
