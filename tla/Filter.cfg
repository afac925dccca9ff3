\* Two channels of MIDI, a byte that is none, and "any".
CONSTANT Channels = {0, 9, 25, 255}
SPECIFICATION FilterSpec
INVARIANT DropsWhatItNames
PROPERTIES BitsOnlyTakeAway PassedStaysPassed
