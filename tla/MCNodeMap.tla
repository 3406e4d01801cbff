----------------------------- MODULE MCNodeMap -----------------------------
(* Documents in the shape of those of the caching tests and the vendor     *)
(* corpus, for NodeMap.                                                    *)
EXTENDS NodeMap

Plain ==
    [kind |-> "register", from |-> <<>>, index |-> {}, at |-> "r", bits |-> "v", mode |-> 0,
     period |-> 0, access |-> "RW", selected |-> {}, invalidators |-> {}, feature |-> FALSE]

Reg(a) == [Plain EXCEPT !.at = a]

Over(k, from) == [Plain EXCEPT !.kind = k, !.from = from, !.feature = TRUE]

Doc(nodes, addresses) ==
    [nodes |-> nodes, banked |-> [a \in addresses |-> {}], moves |-> {}, rounds |-> {},
     loads |-> [n \in DOMAIN nodes |-> {}], fields |-> [a \in addresses |-> {"v"}]]

(* An enumeration selects the bank a gain register shows; the gain is also *)
(* seen through a converter.                                               *)
Selector ==
    [Doc([Sel |-> [Over("enum", <<"SelReg">>) EXCEPT !.selected = {"Gain"}],
          SelReg |-> Reg("sel"),
          Gain |-> Over("front", <<"GainReg">>),
          GainReg |-> Reg("gain"),
          Level |-> Over("converter", <<"GainReg">>)],
         {"sel", "gain"})
       EXCEPT !.banked["gain"] = {"sel"}]

(* The same, with the selector added to the address by the host, and a     *)
(* camera that rounds what it stores (a FloatReg).                         *)
Indexed ==
    [Doc([Sel |-> Over("front", <<"SelReg">>),
          SelReg |-> Reg("sel"),
          Ratio |-> [Over("enum", <<"RatioReg">>) EXCEPT !.period = 0],
          RatioReg |-> [Reg("ratio") EXCEPT !.index = {"Sel"}, !.mode = WriteAround]],
         {"sel", "ratio"})
       EXCEPT !.rounds = {"ratio"}]

(* A register the camera moves, polled, behind a converter and a front     *)
(* node.                                                                   *)
Polled ==
    [Doc([Time |-> Over("front", <<"TimeConv">>),
          TimeConv |-> [Over("converter", <<"TimeReg">>) EXCEPT !.feature = FALSE],
          TimeReg |-> [Reg("time") EXCEPT !.period = 2]],
         {"time"})
       EXCEPT !.moves = {<<"time", "v">>}]

(* A register that is not to be cached, and a converter of it with one     *)
(* that is.                                                                *)
Uncached ==
    [Doc([Temp |-> Over("converter", <<"TempReg", "Unit">>),
          TempReg |-> [Reg("temp") EXCEPT !.mode = NoCache, !.access = "RO"],
          Unit |-> [Reg("unit") EXCEPT !.feature = TRUE]],
         {"temp", "unit"})
       EXCEPT !.moves = {<<"temp", "v">>}]

(* A command that loads a user set.                                        *)
Loading ==
    [Doc([Load |-> [Over("command", <<"LoadReg">>) EXCEPT !.period = 1],
          LoadReg |-> Reg("load"),
          Width |-> Over("front", <<"WidthReg">>),
          WidthReg |-> [Reg("width") EXCEPT !.invalidators = {"Load"}]],
         {"load", "width"})
       EXCEPT !.loads["Load"] = {"width"}]

(* An enumeration with an entry that clears itself.                        *)
Clearing ==
    Doc([Action |-> [Over("enum", <<"ActionReg">>) EXCEPT !.period = 1],
         ActionReg |-> Reg("action")],
        {"action"})

Bits(a, f) == [Reg(a) EXCEPT !.bits = f, !.feature = TRUE]

(* Bits of one register that name each other as invalidators, and a bit    *)
(* that can only be written.                                               *)
Masked ==
    [Doc([A |-> [Bits("word", "a") EXCEPT !.invalidators = {"B"}],
          B |-> [Bits("word", "b") EXCEPT !.invalidators = {"A"}],
          Pulse |-> [Bits("pulse", "a") EXCEPT !.access = "WO"]],
         {"word", "pulse"})
       EXCEPT !.fields = [word |-> {"a", "b"}, pulse |-> {"a"}]]

(* A line of a register whose other line the camera drives.                *)
Lines ==
    [Doc([LineOut |-> [Bits("lines", "a") EXCEPT !.mode = NoCache],
          LineIn |-> [Bits("lines", "b") EXCEPT !.mode = NoCache, !.access = "RO"]],
         {"lines"})
       EXCEPT !.fields["lines"] = {"a", "b"}, !.moves = {<<"lines", "b">>}]

Sheets ==
    {Selector, Indexed, Polled, Uncached, Loading, Clearing, Masked, Lines}

(* Two bits of one register, and nothing that links them.                  *)
Unlinked ==
    {[Doc([A |-> Bits("word", "a"), B |-> Bits("word", "b")], {"word"})
        EXCEPT !.fields = [a \in {"word"} |-> {"a", "b"}]]}
=============================================================================
