SPECIFICATION Spec
CONSTANTS
  Limits <- MCLimits
  Lengths <- MCLengths
  Blanks = {0, 3, 70}
  Terms <- MCTerms
  Spellings = {1, 2}
  Filler = {"very"}
  Articles = {"the"}
  Pleasantries = {"thanks"}
  Clausal = {"that"}
  Copulas = {"is"}
  Collapses <- MCCollapses
  Abbreviated = {"function"}
  Dictionary <- MCDictionary
  Lines <- MCLines
  Others <- MCOthers
  Fields <- MCFields
  Kind <- MCKind
  Default <- MCDefault
  Mapped = {"max_text_chars", "jl_min_chars", "caveman_level", "lsh_enabled", "audit_log_dir"}
  Checked = {"max_text_chars", "caveman_level"}
  Numeric = {"max_text_chars"}
  Accepts <- MCAccepts
  BlockedNames = {"ANTHROPIC_API_KEY"}
  OtherCase <- MCOtherCase
  Unset = Unset
  Absent = Absent
  Broken = Broken
  Environments <- MCEnvironments
  Documents <- MCDocuments
  Names = {{"path"}, {"path", "anthropic_api_key"}}
  Models = {"opus", "haiku", "other"}
  NoModel = NoModel
  Rules <- MCRules
  DefaultPolicy <- Vanilla
  CharsPerToken = 4
  Context = 200000
  Floor = 2048
  Tiers <- MCTiers
  Toggles <- MCToggles
  Sizes <- MCSizes
  Nothing = Nothing
INVARIANTS CountExact NearLimit Verbatim LayersInOrder LargerNeverGentler PolicyGoverns
