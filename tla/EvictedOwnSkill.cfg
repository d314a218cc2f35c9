SPECIFICATION UsageSpec
CONSTANTS
  Agents = {a1, a2}
  Skills = {s1, s2}
  Own = {s2}
  MinUses = 2
  MaxPeriods = 1
PROPERTY OwnSkillsStay
