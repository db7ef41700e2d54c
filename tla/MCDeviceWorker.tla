--------------------------- MODULE MCDeviceWorker ---------------------------
(* Values of the constants of DeviceWorker for TLC. *)
EXTENDS DeviceWorker

MCLevels == {7, 120}

\* 7 % is 41, which is 6.96 %, and 120 % is clamped to 255.
MCRaws == {25, 41, 255}

Command(word, level) == [word |-> word, level |-> level]

\* One command of each kind: switch on with a brightness, off, toggle, an
\* unknown word, a brightness beyond the scale alone.
MCCommands ==
    {Command("on", 7), Command("off", NoLevel), Command("toggle", NoLevel),
     Command("other", NoLevel), Command("none", 120)}

\* One level is enough where the retries and the order of two commands matter:
\* one that the conversions would lose if they truncated.
FewLevels == {7}
FewRaws == {25, 41}
FewCommands ==
    {Command("on", 7), Command("off", NoLevel), Command("toggle", NoLevel),
     Command("other", NoLevel), Command("none", 7)}

\* Enough to learn a state from, to settle, and to miss a publication for.
TwoCommands == {Command("on", 7), Command("toggle", NoLevel)}
=============================================================================
