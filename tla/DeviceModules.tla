--------------------------- MODULE DeviceModules ----------------------------
(***************************************************************************)
(* The modules of the factory as initModule() makes them: their kind and   *)
(* the settings that the ini file holds. Analog limits are in the unit of  *)
(* the module's range, mA or V; a list of names is known by its length.    *)
(* top is the largest count, 4294967295.                                   *)
(***************************************************************************)
EXTENDS Integers

(* The member initialisers of NIDeviceModule. *)
NIDeviceModule(top) ==
  [numberofchannels |-> 16, channels |-> 0, min |-> 0, max |-> 4,
   numberofcounters |-> 0, counters |-> 0, countingmin |-> 0, countingmax |-> top,
   numberofdigitaloutputs |-> 0, outputs |-> 0]

(* 16 current inputs, -20 mA to 20 mA *)
NI9208(top) ==
  [kind |-> "analog",
   settings |-> [NIDeviceModule(top) EXCEPT !.channels = 16, !.min = -20, !.max = 20]]

(* 4 voltage inputs, -10 V to 10 V *)
NI9239(top) ==
  [kind |-> "analog",
   settings |-> [NIDeviceModule(top) EXCEPT !.numberofchannels = 4, !.channels = 4,
                                            !.min = -10, !.max = 10]]

(* 4 counters *)
NI9423(top) ==
  [kind |-> "counter",
   settings |-> [NIDeviceModule(top) EXCEPT !.numberofchannels = 0,
                                            !.numberofcounters = 4, !.counters = 4]]

(* 4 coders *)
NI9411(top) ==
  [kind |-> "coder",
   settings |-> [NIDeviceModule(top) EXCEPT !.numberofchannels = 0,
                                            !.numberofcounters = 4, !.counters = 4]]

(* 4 relays; the names are a port and four lines for each of them. *)
NI9481(top) ==
  [kind |-> "output",
   settings |-> [NIDeviceModule(top) EXCEPT !.numberofchannels = 0,
                                            !.numberofdigitaloutputs = 4,
                                            !.outputs = 4 * (1 + 4)]]

(* NIDeviceModuleFactory::createModule(): no other product has an object.  *)
Products == {"NI9208", "NI9239", "NI9423", "NI9411", "NI9481"}

CreateModule(product, top) ==
  CASE product = "NI9208" -> NI9208(top)
    [] product = "NI9239" -> NI9239(top)
    [] product = "NI9423" -> NI9423(top)
    [] product = "NI9411" -> NI9411(top)
    [] product = "NI9481" -> NI9481(top)

=============================================================================
