----------------------------- MODULE MCStartup -----------------------------
(***************************************************************************)
(* Startup with files of two lines: quoted values, values that are empty,  *)
(* too short or with letters after the number, levels that are found in    *)
(* one name, in several or in none, and options nobody knows.              *)
(***************************************************************************)
EXTENDS Startup

MCStoi == ("34523" :> 34523) @@ ("1000" :> 1000) @@ ("5000" :> 5000)
          @@ ("2" :> 2) @@ ("7" :> 7) @@ ("7ms" :> 7)

MCToString == (34523 :> "34523") @@ (1000 :> "1000") @@ (5000 :> "5000")
              @@ (2 :> "2") @@ (7 :> "7")

MCTexts == {"", "r", "no", "127.0.0.1"} \cup ToSet(cLevelTexts) \cup DOMAIN MCStoi

MCFind == [text \in MCTexts |->
              CASE text = ""  -> ToSet(cLevelTexts)
                [] text = "r" -> {"Trace", "Warning", "Error"}
                [] OTHER      -> {text} \cap ToSet(cLevelTexts)]

MCAddresses == {"127.0.0.1"}

MCLines ==
    [option : {"LogLevel"}, result : {"none", "", "r", "no", "Debug", "Error"}]
    \cup [option : {"XLinkIp"}, result : {"", "no"}]
    \cup [option : {"XLinkPort"}, result : {"none", "no", "7"}]
    \cup [option : {"MaxBuffer"}, result : {"none", "", "7ms", "1000"}]
    \cup [option : {"MaxReadTimeoutMS", "Channel"}, result : {"7"}]

\* And a file that SaveToFile has written.
MCSaved == SaveToFile([Defaults EXCEPT !["LogLevel"] = "Trace", !["MaxBuffer"] = 7,
                                       !["XLinkIp"] = ""])

MCFiles == [lines : UNION {[1..n -> MCLines] : n \in 1..2}, ended : BOOLEAN]
           \cup {MCSaved}
=============================================================================
