SPECIFICATION Spec
CONSTANTS
  Advertised = {"light", "phone"}
  Presets = {256}
  Percents = {5, 12, 95}
  Stops = {0, 100}
INVARIANT TypeOK
PROPERTIES IntentCarriedOut StatusTellsTruth
