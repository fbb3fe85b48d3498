CONSTANTS
  C = C
  en = en
  eo = eo
  eoNull = eoNull
  us = us
  de = de
  noLayout = noLayout
  basic = basic
  unknown = unknown
  utc = utc
  rome = rome
  None = None
  Locales = {C, en, eo, eoNull}
  Supported = {en, eo}
  Readable = {C, en, eoNull}
  Territorial = {en, eoNull}
  Languages = {"English", "Esperanto"}
  NameOf <- MCNameOf
  InitialLocales = {C}
  Layouts = {us, de, noLayout}
  Variants = {basic, unknown}
  VariantsOf <- MCVariantsOf
  FirstVariant <- MCFirstVariant
  InitialKeyboards <- MCInitialKeyboards
  Timezones = {utc, rome}
  Listed = {utc, rome}
  Located = {rome}
  InitialTimezones = {utc}
  Options = {"ReducedMotion", "HighContrast"}
  MaxLoose = 1
  MaxActive = 2
  Faults = TRUE
SPECIFICATION Spec
INVARIANTS
  ErrorNeedsFault
  SettingsAsShown
  OffIsOff
PROPERTIES
  SwitchesIndependent
  NextEnds
CHECK_DEADLOCK FALSE
